---- MODULE Spec2Model ----
(***************************************************************************)
(* CSDevs: the frame capture thread (csdCapture.py, class captureThread),  *)
(* the main window that starts it and consumes its result (csdevs.py,      *)
(* class CSDevs) and the auto-exposure tuning the main window runs on the  *)
(* statistics of each captured frame.                                      *)
(***************************************************************************)
EXTENDS Integers, Sequences, FiniteSets, TLC

(***************************************************************************)
(* Bounds of the model.                                                    *)
(***************************************************************************)
\* the most buffers the device grants to one REQBUFS request
MaxBufs == 2
\* the largest frame number chosen in the UI (sbNthFrame)
MaxFrame == 2
\* the most ignored timer ticks that are counted
MaxWasted == 1

(***************************************************************************)
(* Sequence helpers.                                                       *)
(***************************************************************************)
RECURSIVE IndexOfId(_, _, _)
\* index of the first entry of list s at or after i whose id is ctrlID, 0 if none
IndexOfId(s, ctrlID, i) ==
    IF i > Len(s) THEN 0
    ELSE IF s[i].id = ctrlID THEN i
    ELSE IndexOfId(s, ctrlID, i + 1)

RemoveAt(s, i) == SubSeq(s, 1, i - 1) \o SubSeq(s, i + 1, Len(s))

IdsOf(s) == {s[i].id : i \in 1..Len(s)}

(***************************************************************************)
(* captureThread: the pending control settings (class attribute controls,  *)
(* one list shared by every instance of the class).                        *)
(***************************************************************************)
ThreadAddControlSettingByID(ctl, ctrlID, value) ==
    Append(ctl, [id |-> ctrlID, value |-> value])

\* a remove_control_setting_by_ID that removes nothing
ThreadRemoveNothing(ctl, ctrlID) == ctl

ThreadRemoveControlSettingByID(ctl, ctrlID) ==
    LET i == IndexOfId(ctl, ctrlID, 1)
    IN  IF i = 0 THEN ctl ELSE RemoveAt(ctl, i)

ThreadReplaceControlSettingByID(ctl, ctrlID, newValue) ==
    ThreadAddControlSettingByID(ThreadRemoveControlSettingByID(ctl, ctrlID),
                                ctrlID, newValue)

(***************************************************************************)
(* captureThread: buffer management.  th is the thread object; closed says *)
(* whether its device handle is closed; ok is the outcome of the ioctl.    *)
(* req = 0 stands for req = None (a granted request has a count >= 1).     *)
(***************************************************************************)
RequestCaptureBuffers(th, closed, newCount, ok, grant) ==
    IF closed \/ ~ok
    THEN [th EXCEPT !.req = 0, !.failed = TRUE, !.ioFailed = TRUE]
    ELSE IF newCount = 0
         THEN [th EXCEPT !.req = 0]
         ELSE [th EXCEPT !.req = grant,
                         !.granted = TRUE,
                         !.relAfterGrant = FALSE,
                         !.oplog = Append(@, "request")]

ReleaseCaptureBuffers(th, closed, ok) ==
    LET r == RequestCaptureBuffers(th, closed, 0, ok, 0)
    IN  [r EXCEPT !.req = 0,
                  !.relAfterGrant = TRUE,
                  !.oplog = Append(@, "release")]

\* a __close_capture_buffers that forgets the buffers it was given
CloseCaptureBuffersLeaky(th) ==
    [th EXCEPT !.oplog = Append(@, "close")]

CloseCaptureBuffers(th) ==
    [th EXCEPT !.buffers = 0,
               !.nClosed = @ + th.buffers,
               !.oplog = Append(@, "close")]

\* the except clause of __setup_capture_buffers (TypeError, ValueError)
SetupLocalFailure(th) ==
    [CloseCaptureBuffers(th) EXCEPT !.brokenRx = TRUE, !.failed = TRUE]

\* the except clause of run(): Exception
RunExceptHandler(th, closed, ok) ==
    ReleaseCaptureBuffers(CloseCaptureBuffers(th), closed, ok)

StreamOn(th, closed, ok) ==
    IF closed \/ ~ok
    THEN [th EXCEPT !.brokenRx = TRUE, !.failed = TRUE, !.ioFailed = TRUE,
                    !.oplog = Append(@, "streamon")]
    ELSE [th EXCEPT !.streamOnIssued = TRUE, !.oplog = Append(@, "streamon")]

StreamOff(th) == [th EXCEPT !.oplog = Append(@, "streamoff")]

RequeueFrame(th, closed, ok) ==
    IF closed \/ ~ok
    THEN [th EXCEPT !.brokenRx = TRUE, !.failed = TRUE, !.ioFailed = TRUE,
                    !.requeueFailed = TRUE, !.nRequeued = @ + 1]
    ELSE [th EXCEPT !.nRequeued = @ + 1]

\* a __reach_target_frame that applies the control settings at the frame
\* it retains
CtrlFrameAtTarget(capFrame) == capFrame

\* the frame at which __reach_target_frame applies the control settings
CtrlFrame(capFrame) == IF capFrame > 2 THEN capFrame \div 3 ELSE 0

\* __set_controls: what the settings list says about auto-focus (an id of
\* -1 is None)
AfWantOn(ctl, afID, mfID) ==
    IF afID = -1 THEN "none"
    ELSE IF IndexOfId(ctl, afID, 1) # 0
         THEN (IF ctl[IndexOfId(ctl, afID, 1)].value # 0 THEN "on" ELSE "off")
         ELSE IF mfID # -1 /\ IndexOfId(ctl, mfID, 1) # 0 THEN "off"
         ELSE "none"

RECURSIVE WriteControlsUnguarded(_, _, _, _, _, _, _)
\* a __set_controls that writes every entry of the list
WriteControlsUnguarded(ctl, i, want, afID, mfID, afIsOn, okAfOff) ==
    IF i > Len(ctl) THEN <<>>
    ELSE <<[id |-> ctl[i].id, value |-> ctl[i].value]>>
         \o WriteControlsUnguarded(ctl, i + 1, want, afID, mfID, afIsOn, okAfOff)

RECURSIVE WriteControls(_, _, _, _, _, _, _)
\* __set_controls: the S_CTRL writes issued for entries i.. of the list
WriteControls(ctl, i, want, afID, mfID, afIsOn, okAfOff) ==
    IF i > Len(ctl) THEN <<>>
    ELSE LET rest == WriteControls(ctl, i + 1, want, afID, mfID, afIsOn, okAfOff)
             one  == <<[id |-> ctl[i].id, value |-> ctl[i].value]>>
         IN  IF want = "on" /\ ctl[i].id = mfID THEN rest
             ELSE IF want = "off" /\ afIsOn /\ ctl[i].id = mfID
                  THEN IF okAfOff
                       THEN <<[id |-> afID, value |-> 0]>> \o one \o rest
                       ELSE rest
                  ELSE one \o rest

\* __set_controls: the settings written to the device, in list order
SetControls(t, closed, ctl, afIsOn, okAfOff) ==
    IF ~closed /\ Len(ctl) > 0
    THEN [t EXCEPT !.written = @ \o WriteControls(ctl, 1,
                                     AfWantOn(ctl, t.focusAutoID, t.focusManualID),
                                     t.focusAutoID, t.focusManualID,
                                     afIsOn, okAfOff),
                   !.afRead = IF t.focusAutoID = -1 THEN @
                              ELSE IF afIsOn THEN "on" ELSE "off",
                   !.nSetControls = @ + 1]
    ELSE [t EXCEPT !.nSetControls = @ + 1]

(***************************************************************************)
(* State.                                                                  *)
(*   capThread    CSDevs.capThread is not None                             *)
(*   th           the captureThread object (buffers is a class attribute   *)
(*                and outlives the instance)                               *)
(*   tpc          where the thread is in run()                             *)
(*   tClosed      the device object the thread was given is closed         *)
(*   tcontrols    captureThread.controls, a class attribute                *)
(*   th.pending   the settings CSDevs held when the cycle was started      *)
(*   capDev       CSDevs.capDev: "none" or "open"                          *)
(*   devBusy      the handle CSDevs holds has buffers allocated or is       *)
(*                streaming on behalf of a capture cycle                    *)
(*   win          the CSDevs fields the exposure tuning reads and writes    *)
(***************************************************************************)
VARIABLES capThread, th, tpc, tClosed, tcontrols, capDev, lastCapBroke,
          timerActive, pendingTick, pendingNoSave, frameCaptureAndSave,
          wastedCapTicks, devBusy, win

capVars == <<capThread, th, tpc, tClosed, tcontrols, capDev, lastCapBroke,
             timerActive, pendingTick, pendingNoSave, frameCaptureAndSave,
             wastedCapTicks, devBusy>>

callerVars == <<capThread, capDev, lastCapBroke, timerActive, pendingTick,
                pendingNoSave, frameCaptureAndSave, wastedCapTicks, win>>

\* the frame statistics a fresh captureThread object holds
DefaultStats == [brightness |-> 0, contrast |-> 0, saturation |-> 0]

\* the statistics a decoded frame can have (0..255 scale)
FrameStatistics ==
    { [brightness |-> 60,  contrast |-> 60, saturation |-> 60],
      [brightness |-> 200, contrast |-> 40, saturation |-> 128] }

\* captureThread(): instance attributes start from the class attributes
NewCaptureThread(buffers) ==
    [ capFrame |-> -1, saveFile |-> FALSE, caption |-> FALSE,
      bufCount |-> 16, focusAutoID |-> -1, focusManualID |-> -1,
      req |-> 0, buffers |-> buffers, brokenRx |-> TRUE,
      bufToSave |-> FALSE, curFrame |-> 0, mapIndex |-> 0,
      reachResult |-> 1, stats |-> DefaultStats,
      nMapped |-> 0, nClosed |-> 0, nDequeued |-> 0, nRequeued |-> 0,
      nSetControls |-> 0, granted |-> FALSE, relAfterGrant |-> FALSE,
      streamOnIssued |-> FALSE, raised |-> FALSE, failed |-> FALSE,
      ioFailed |-> FALSE, requeueFailed |-> FALSE, nWaits |-> 0,
      handle |-> "none", afRead |-> "unread", pending |-> <<>>,
      oplog |-> <<>>, written |-> <<>> ]

(***************************************************************************)
(* captureThread.run(), one step per action.                               *)
(***************************************************************************)
\* run(): the guard, then __setup_capture_buffers up to the mapping loop
TSetupCaptureBuffers ==
    /\ tpc = "run"
    /\ IF th.capFrame > 0
       THEN \E okRel \in BOOLEAN, okReq \in BOOLEAN, grant \in 1..MaxBufs :
              LET r == RequestCaptureBuffers(
                           ReleaseCaptureBuffers(th, tClosed, okRel),
                           tClosed, th.bufCount, okReq, grant)
              IN  /\ th' = [r EXCEPT !.handle = "used"]
                  /\ tpc' = IF r.req # 0 THEN "map" ELSE "done"
       ELSE /\ th' = th
            /\ tpc' = "done"
    /\ devBusy' = IF th'.granted THEN TRUE ELSE devBusy
    /\ UNCHANGED <<tClosed, tcontrols, callerVars>>

\* what one pass of the mapping loop can do
MapOutcomes == {"ok", "oserror_before", "oserror_after",
                "valueerror_before", "valueerror_after"}

\* __setup_capture_buffers: one pass of the mapping loop, and what run()
\* does with the result when the loop ends
TMapBuffer ==
    /\ tpc = "map"
    /\ IF tClosed /\ th.mapIndex = 0
       THEN \* raise OSError, not caught by __setup_capture_buffers
            /\ th' = [th EXCEPT !.raised = TRUE]
            /\ tpc' = "except"
       ELSE \E out \in MapOutcomes :
              LET appended == [th EXCEPT !.buffers = @ + 1,
                                         !.nMapped = @ + 1,
                                         !.mapIndex = @ + 1,
                                         !.oplog = Append(@, "map")]
              IN  CASE out = "ok" ->
                         /\ th' = appended
                         /\ tpc' = IF appended.mapIndex = th.req
                                   THEN "streamon" ELSE "map"
                    [] out = "oserror_before" ->
                         /\ th' = [th EXCEPT !.raised = TRUE]
                         /\ tpc' = "except"
                    [] out = "oserror_after" ->
                         /\ th' = [appended EXCEPT !.raised = TRUE]
                         /\ tpc' = "except"
                    [] out = "valueerror_before" ->
                         \* caught locally; run() then finds no buffers
                         /\ th' = SetupLocalFailure(th)
                         /\ tpc' = "done"
                    [] out = "valueerror_after" ->
                         /\ th' = SetupLocalFailure(appended)
                         /\ tpc' = "done"
    /\ devBusy' = devBusy
    /\ UNCHANGED <<tClosed, tcontrols, callerVars>>

\* run(): __stream_on
TStreamOn ==
    /\ tpc = "streamon"
    /\ \E ok \in BOOLEAN :
         th' = [StreamOn(th, tClosed, ok) EXCEPT !.curFrame = 0]
    /\ tpc' = "reach"
    /\ devBusy' = devBusy
    /\ UNCHANGED <<tClosed, tcontrols, callerVars>>

\* __set_controls: what reading the auto-focus control can give.  Reading
\* an id the camera does not have fails, and None != 0 is True.
AfStates(t, descriptors) ==
    IF t.focusAutoID = -1 THEN {FALSE}
    ELSE IF t.focusAutoID \in DOMAIN descriptors THEN BOOLEAN
    ELSE {TRUE}

\* __set_controls: whether switching auto-focus off can succeed
AfOffOutcomes(t, descriptors) ==
    IF t.focusAutoID \in DOMAIN descriptors THEN BOOLEAN ELSE {FALSE}

\* a __reach_target_frame that counts frames from one
TargetFrameReachedFromOne(curFrame, capFrame) == curFrame + 1 = capFrame

\* __reach_target_frame: the dequeued buffer is the one to retain
TargetFrameReached(curFrame, capFrame) == curFrame = capFrame

\* what select() can report for the device
SelectOutcomes == {"ready", "timeout", "raise"}

\* __reach_target_frame: one pass of the while loop.  reachResult is the
\* value the function returns (1 while it has not returned).
TReachTargetFrame ==
    /\ tpc = "reach"
    /\ IF tClosed \/ th.curFrame > th.capFrame
       THEN /\ th' = [th EXCEPT !.reachResult = -3]
            /\ tpc' = "teardown"
       ELSE \E sel \in SelectOutcomes, okDq \in BOOLEAN, okRq \in BOOLEAN,
               afIsOn \in AfStates(th, win.descriptors),
               okAfOff \in AfOffOutcomes(th, win.descriptors) :
              LET s == IF th.curFrame = CtrlFrame(th.capFrame)
                       THEN SetControls(th, tClosed, tcontrols, afIsOn, okAfOff)
                       ELSE th
                  c  == [s EXCEPT !.nWaits = @ + 1]
                  dq == [c EXCEPT !.nDequeued = @ + 1]
              IN  CASE sel = "raise" ->
                         /\ th' = [c EXCEPT !.raised = TRUE]
                         /\ tpc' = "except"
                    [] sel = "timeout" ->
                         /\ th' = [c EXCEPT !.reachResult = -2]
                         /\ tpc' = "teardown"
                    [] sel = "ready" /\ ~okDq ->
                         /\ th' = [c EXCEPT !.brokenRx = TRUE,
                                            !.reachResult = -1]
                         /\ tpc' = "teardown"
                    [] sel = "ready" /\ okDq
                         /\ ~TargetFrameReached(c.curFrame, c.capFrame) ->
                         /\ th' = [RequeueFrame(dq, tClosed, okRq)
                                       EXCEPT !.curFrame = @ + 1]
                         /\ tpc' = "reach"
                    [] sel = "ready" /\ okDq
                         /\ TargetFrameReached(c.curFrame, c.capFrame) ->
                         /\ th' = [dq EXCEPT !.bufToSave = TRUE,
                                             !.reachResult = 0,
                                             !.oplog = Append(@, "retain")]
                         /\ tpc' = "process"
    /\ devBusy' = devBusy
    /\ UNCHANGED <<tClosed, tcontrols, callerVars>>

\* what decoding the retained buffer and computing its statistics can do
DecodeOutcomes == {"ok", "nodecode", "nostats", "raise"}

\* a __save_frame that never writes the file
SaveFrameUnsaved(t, stats, okSave) ==
    LET s == [t EXCEPT !.stats = stats, !.oplog = Append(@, "stats")]
    IN  IF s.caption /\ s.saveFile
        THEN [s EXCEPT !.oplog = Append(@, "caption")]
        ELSE s

\* a __save_frame that draws the caption before it computes the statistics
SaveFrameCaptionFirst(t, stats, okSave) ==
    LET c == IF t.caption /\ t.saveFile
             THEN [t EXCEPT !.oplog = Append(@, "caption")]
             ELSE t
        s == [c EXCEPT !.stats = stats, !.oplog = Append(@, "stats")]
    IN  IF ~s.saveFile THEN s
        ELSE IF okSave THEN [s EXCEPT !.oplog = Append(@, "save")]
        ELSE [s EXCEPT !.failed = TRUE]

\* __save_frame once the frame is decoded: statistics, then caption and
\* save when a save file is set
SaveFrame(t, stats, okSave) ==
    LET s == [t EXCEPT !.stats = stats, !.oplog = Append(@, "stats")]
        c == IF s.caption
             THEN [s EXCEPT !.oplog = Append(@, "caption")]
             ELSE s
    IN  IF ~s.saveFile THEN s
        ELSE IF okSave THEN [c EXCEPT !.oplog = Append(@, "save")]
        ELSE [c EXCEPT !.failed = TRUE]

\* run(): the retained buffer is decoded, measured, saved and requeued
TProcessFrame ==
    /\ tpc = "process"
    /\ \E dec \in DecodeOutcomes, stats \in FrameStatistics,
          okSave \in BOOLEAN, okRq \in BOOLEAN :
         LET loaded == [th EXCEPT !.oplog = Append(@, "decode")]
             saved  == CASE dec = "ok"       -> SaveFrame(loaded, stats, okSave)
                         [] dec = "nostats"  ->
                              [SaveFrame(loaded, th.stats, okSave)
                                   EXCEPT !.failed = TRUE]
                         [] dec = "nodecode" -> [th EXCEPT !.failed = TRUE]
                         [] dec = "raise"    -> loaded
             rq     == [RequeueFrame(saved, tClosed, okRq)
                            EXCEPT !.oplog = Append(@, "requeue")]
         IN  IF dec = "raise"
             THEN /\ th' = [saved EXCEPT !.raised = TRUE]
                  /\ tpc' = "except"
             ELSE /\ th' = [rq EXCEPT !.bufToSave = FALSE,
                                      !.brokenRx = FALSE]
                  /\ tpc' = "teardown"
    /\ devBusy' = devBusy
    /\ UNCHANGED <<tClosed, tcontrols, callerVars>>

\* run(): __stream_off, __close_capture_buffers, __release_capture_buffers
TTeardown ==
    /\ tpc = "teardown"
    /\ \E okRel \in BOOLEAN :
         th' = ReleaseCaptureBuffers(CloseCaptureBuffers(StreamOff(th)),
                                     tClosed, okRel)
    /\ tpc' = "done"
    /\ devBusy' = IF tClosed THEN devBusy ELSE FALSE
    /\ UNCHANGED <<tClosed, tcontrols, callerVars>>

\* run(): except Exception
TExcept ==
    /\ tpc = "except"
    /\ \E okRel \in BOOLEAN : th' = RunExceptHandler(th, tClosed, okRel)
    /\ tpc' = "done"
    /\ devBusy' = IF tClosed THEN devBusy ELSE th.streamOnIssued
    /\ UNCHANGED <<tClosed, tcontrols, callerVars>>

thVars == <<th, tpc, tcontrols>>

vars == <<capVars, win>>

(***************************************************************************)
(* CSDevs: camera handle.                                                  *)
(***************************************************************************)
\* a __close_camera that leaves the handle open
CloseCameraKept(dev) == dev

\* __close_camera: the handle the running thread was given is closed too
CloseCamera(dev) == "none"

\* __open_camera: keeps an open handle, else opens the current camera
OpenCamera(dev, okOpen) ==
    IF dev = "none" THEN (IF okOpen THEN "open" ELSE "none") ELSE dev

\* a finished signal that is delivered while the thread is still in run()
RunReturnedEarly(pc) == pc # "idle"

\* the finished signal of the thread is delivered after run() has returned
RunReturned(pc) == pc = "done"

\* the device object held by a thread that is inside run() is closed
ThreadHandleClosed(dev, pc, closed) ==
    IF dev = "open" /\ pc \notin {"idle", "done"} THEN TRUE ELSE closed

(***************************************************************************)
(* CSDevs exposure tuning: arithmetic.                                     *)
(*                                                                         *)
(* The program computes in floating point.  The model computes the same    *)
(* quantities in fixed point: a control value x is held as x * FP, a       *)
(* fraction of the frame range as a count of 510ths (frame values are      *)
(* whole numbers and a target midpoint is a whole number of halves), and   *)
(* the powers come from tables computed with the program's pow().  For     *)
(* control ranges that are powers of two, which is what the cameras of     *)
(* the model have, the fixed point results equal the program's results.    *)
(***************************************************************************)
FP == 1000 * 1000

Abs(x) == IF x < 0 THEN -x ELSE x

\* int(): truncation towards zero of a value held as x * FP
IntTrunc(x) == IF x >= 0 THEN x \div FP ELSE -((-x) \div FP)

\* __limit_property_value_to_range
LimitPropertyValueToRange(fValue, fMin, fMax) ==
    IF fValue < fMin THEN fMin
    ELSE IF fValue > fMax THEN fMax
    ELSE fValue

\* entry k+1 is floor(10^6 * (k/510)^1.05): pow(abs(frmDeltaFrac), deltaPower), day, fast
PowTable105 ==
    << 0, 1435, 2972, 4550, 6154, 7779, 9421, 11076, 12743, 14421,
       16108, 17803, 19507, 21217, 22934, 24657, 26386, 28120, 29859, 31604,
       33352, 35106, 36863, 38624, 40389, 42158, 43931, 45707, 47486, 49268,
       51053, 52842, 54633, 56427, 58224, 60023, 61825, 63630, 65437, 67246,
       69058, 70871, 72688, 74506, 76326, 78149, 79973, 81800, 83628, 85458,
       87291, 89125, 90960, 92798, 94637, 96478, 98321, 100165, 102011, 103859,
       105708, 107559, 109411, 111265, 113120, 114976, 116834, 118694, 120555, 122417,
       124280, 126145, 128011, 129879, 131748, 133618, 135489, 137361, 139235, 141110,
       142986, 144864, 146742, 148622, 150502, 152384, 154267, 156151, 158036, 159922,
       161810, 163698, 165587, 167478, 169369, 171262, 173155, 175049, 176945, 178841,
       180738, 182636, 184536, 186436, 188337, 190239, 192142, 194045, 195950, 197855,
       199762, 201669, 203577, 205486, 207396, 209307, 211218, 213130, 215044, 216957,
       218872, 220788, 222704, 224621, 226539, 228458, 230377, 232297, 234218, 236140,
       238062, 239986, 241910, 243834, 245760, 247686, 249612, 251540, 253468, 255397,
       257327, 259257, 261188, 263120, 265052, 266985, 268919, 270853, 272788, 274724,
       276660, 278597, 280535, 282473, 284412, 286351, 288291, 290232, 292173, 294115,
       296058, 298001, 299945, 301889, 303834, 305780, 307726, 309673, 311620, 313568,
       315516, 317466, 319415, 321365, 323316, 325267, 327219, 329172, 331125, 333078,
       335032, 336987, 338942, 340898, 342854, 344811, 346768, 348726, 350684, 352643,
       354603, 356563, 358523, 360484, 362445, 364407, 366370, 368333, 370296, 372260,
       374225, 376189, 378155, 380121, 382087, 384054, 386021, 387989, 389957, 391926,
       393896, 395865, 397835, 399806, 401777, 403749, 405721, 407693, 409666, 411640,
       413613, 415588, 417562, 419538, 421513, 423489, 425466, 427443, 429420, 431398,
       433376, 435355, 437334, 439313, 441293, 443274, 445255, 447236, 449217, 451200,
       453182, 455165, 457148, 459132, 461116, 463100, 465085, 467071, 469056, 471043,
       473029, 475016, 477003, 478991, 480979, 482968, 484957, 486946, 488935, 490926,
       492916, 494907, 496898, 498890, 500882, 502874, 504867, 506860, 508853, 510847,
       512841, 514836, 516831, 518826, 520822, 522818, 524814, 526811, 528808, 530805,
       532803, 534801, 536800, 538799, 540798, 542798, 544798, 546798, 548799, 550800,
       552801, 554803, 556805, 558807, 560810, 562813, 564816, 566820, 568824, 570829,
       572833, 574838, 576844, 578850, 580856, 582862, 584869, 586876, 588883, 590891,
       592899, 594907, 596916, 598925, 600934, 602944, 604954, 606964, 608975, 610986,
       612997, 615009, 617021, 619033, 621045, 623058, 625071, 627085, 629098, 631112,
       633127, 635141, 637156, 639172, 641187, 643203, 645219, 647236, 649252, 651269,
       653287, 655304, 657322, 659341, 661359, 663378, 665397, 667416, 669436, 671456,
       673476, 675497, 677518, 679539, 681561, 683582, 685604, 687627, 689649, 691672,
       693695, 695719, 697742, 699766, 701790, 703815, 705840, 707865, 709890, 711916,
       713942, 715968, 717994, 720021, 722048, 724075, 726103, 728131, 730159, 732187,
       734216, 736245, 738274, 740303, 742333, 744363, 746393, 748424, 750454, 752485,
       754517, 756548, 758580, 760612, 762644, 764677, 766710, 768743, 770776, 772810,
       774844, 776878, 778912, 780947, 782981, 785017, 787052, 789088, 791123, 793159,
       795196, 797232, 799269, 801306, 803344, 805381, 807419, 809457, 811496, 813534,
       815573, 817612, 819651, 821691, 823731, 825771, 827811, 829851, 831892, 833933,
       835974, 838016, 840057, 842099, 844142, 846184, 848227, 850269, 852313, 854356,
       856399, 858443, 860487, 862532, 864576, 866621, 868666, 870711, 872756, 874802,
       876848, 878894, 880940, 882987, 885034, 887081, 889128, 891175, 893223, 895271,
       897319, 899367, 901416, 903465, 905514, 907563, 909612, 911662, 913712, 915762,
       917812, 919863, 921914, 923964, 926016, 928067, 930119, 932171, 934223, 936275,
       938327, 940380, 942433, 944486, 946539, 948593, 950647, 952701, 954755, 956809,
       958864, 960919, 962974, 965029, 967084, 969140, 971196, 973252, 975308, 977365,
       979421, 981478, 983535, 985593, 987650, 989708, 991766, 993824, 995882, 997941,
       1000000 >>

\* entry k+1 is floor(10^6 * (k/510)^1.1): pow(abs(frmDeltaFrac), deltaPower), night, fast
PowTable110 ==
    << 0, 1051, 2253, 3519, 4829, 6173, 7544, 8938, 10353, 11785,
       13233, 14696, 16172, 17660, 19160, 20671, 22192, 23722, 25262, 26810,
       28366, 29930, 31501, 33080, 34666, 36258, 37856, 39461, 41072, 42688,
       44310, 45937, 47570, 49208, 50851, 52498, 54150, 55807, 57469, 59134,
       60804, 62479, 64157, 65839, 67525, 69216, 70909, 72607, 74308, 76013,
       77721, 79432, 81147, 82865, 84587, 86312, 88039, 89770, 91504, 93241,
       94981, 96724, 98469, 100218, 101969, 103723, 105480, 107239, 109001, 110766,
       112533, 114302, 116074, 117849, 119626, 121406, 123187, 124971, 126758, 128547,
       130338, 132131, 133926, 135724, 137524, 139326, 141130, 142936, 144745, 146555,
       148367, 150182, 151998, 153816, 155637, 157459, 159283, 161109, 162937, 164767,
       166599, 168432, 170267, 172105, 173944, 175784, 177627, 179471, 181317, 183164,
       185014, 186865, 188717, 190572, 192427, 194285, 196144, 198005, 199867, 201731,
       203597, 205464, 207333, 209203, 211074, 212948, 214822, 216698, 218576, 220455,
       222336, 224218, 226101, 227986, 229873, 231760, 233649, 235540, 237432, 239325,
       241220, 243116, 245013, 246912, 248812, 250713, 252616, 254519, 256425, 258331,
       260239, 262148, 264058, 265970, 267883, 269797, 271712, 273629, 275546, 277465,
       279386, 281307, 283230, 285153, 287078, 289004, 290932, 292860, 294790, 296720,
       298652, 300585, 302520, 304455, 306391, 308329, 310267, 312207, 314148, 316090,
       318033, 319977, 321922, 323868, 325816, 327764, 329713, 331664, 333615, 335568,
       337521, 339476, 341431, 343388, 345346, 347304, 349264, 351225, 353186, 355149,
       357113, 359077, 361043, 363009, 364977, 366945, 368915, 370885, 372857, 374829,
       376802, 378776, 380752, 382728, 384705, 386683, 388661, 390641, 392622, 394603,
       396586, 398569, 400554, 402539, 404525, 406512, 408500, 410488, 412478, 414468,
       416460, 418452, 420445, 422439, 424434, 426429, 428426, 430423, 432421, 434420,
       436420, 438421, 440422, 442425, 444428, 446432, 448436, 450442, 452449, 454456,
       456464, 458473, 460482, 462493, 464504, 466516, 468529, 470542, 472557, 474572,
       476588, 478605, 480622, 482640, 484659, 486679, 488700, 490721, 492743, 494766,
       496790, 498814, 500839, 502865, 504891, 506919, 508947, 510976, 513005, 515035,
       517066, 519098, 521130, 523164, 525197, 527232, 529267, 531303, 533340, 535377,
       537416, 539454, 541494, 543534, 545575, 547617, 549659, 551702, 553746, 555790,
       557835, 559881, 561927, 563974, 566022, 568071, 570120, 572169, 574220, 576271,
       578323, 580375, 582428, 584482, 586537, 588592, 590647, 592704, 594761, 596818,
       598877, 600936, 602995, 605056, 607116, 609178, 611240, 613303, 615366, 617430,
       619495, 621560, 623626, 625693, 627760, 629828, 631896, 633965, 636035, 638105,
       640176, 642247, 644319, 646392, 648465, 650539, 652614, 654689, 656764, 658841,
       660918, 662995, 665073, 667152, 669231, 671311, 673391, 675472, 677554, 679636,
       681719, 683802, 685886, 687970, 690055, 692141, 694227, 696314, 698401, 700489,
       702578, 704667, 706756, 708847, 710937, 713029, 715120, 717213, 719306, 721399,
       723493, 725588, 727683, 729779, 731875, 733972, 736069, 738167, 740265, 742364,
       744464, 746564, 748664, 750766, 752867, 754969, 757072, 759175, 761279, 763383,
       765488, 767594, 769699, 771806, 773913, 776020, 778128, 780237, 782346, 784455,
       786565, 788676, 790787, 792898, 795011, 797123, 799236, 801350, 803464, 805579,
       807694, 809809, 811926, 814042, 816159, 818277, 820395, 822514, 824633, 826753,
       828873, 830993, 833114, 835236, 837358, 839481, 841604, 843727, 845851, 847976,
       850101, 852226, 854352, 856479, 858606, 860733, 862861, 864989, 867118, 869248,
       871377, 873508, 875638, 877770, 879901, 882034, 884166, 886299, 888433, 890567,
       892701, 894836, 896972, 899108, 901244, 903381, 905518, 907656, 909794, 911933,
       914072, 916211, 918351, 920492, 922632, 924774, 926916, 929058, 931201, 933344,
       935487, 937631, 939776, 941921, 944066, 946212, 948358, 950505, 952652, 954800,
       956948, 959096, 961245, 963395, 965544, 967695, 969845, 971996, 974148, 976300,
       978452, 980605, 982758, 984912, 987066, 989220, 991375, 993531, 995687, 997843,
       1000000 >>

\* entry k+1 is floor(10^6 * (k/510)^1.15): pow(abs(frmDeltaFrac), deltaPower), day, slow
PowTable115 ==
    << 0, 769, 1707, 2722, 3790, 4899, 6041, 7213, 8411, 9631,
       10871, 12130, 13407, 14700, 16008, 17330, 18665, 20012, 21372, 22743,
       24125, 25517, 26920, 28332, 29753, 31183, 32622, 34069, 35524, 36987,
       38457, 39935, 41420, 42912, 44411, 45916, 47428, 48947, 50471, 52001,
       53538, 55080, 56627, 58181, 59739, 61303, 62873, 64447, 66027, 67611,
       69200, 70794, 72393, 73996, 75604, 77216, 78833, 80454, 82079, 83709,
       85343, 86980, 88622, 90268, 91918, 93571, 95229, 96890, 98555, 100223,
       101895, 103571, 105251, 106933, 108620, 110309, 112003, 113699, 115399, 117102,
       118808, 120518, 122230, 123946, 125665, 127387, 129112, 130840, 132571, 134305,
       136042, 137781, 139524, 141269, 143018, 144769, 146523, 148279, 150039, 151801,
       153565, 155333, 157103, 158875, 160650, 162428, 164208, 165991, 167776, 169564,
       171354, 173147, 174942, 176739, 178539, 180341, 182146, 183953, 185762, 187574,
       189388, 191204, 193022, 194843, 196665, 198490, 200318, 202147, 203979, 205812,
       207648, 209486, 211326, 213168, 215013, 216859, 218707, 220558, 222410, 224264,
       226121, 227979, 229840, 231702, 233566, 235433, 237301, 239171, 241043, 242917,
       244793, 246670, 248550, 250431, 252315, 254200, 256087, 257975, 259866, 261758,
       263652, 265548, 267446, 269345, 271246, 273149, 275054, 276960, 278868, 280778,
       282690, 284603, 286518, 288434, 290352, 292272, 294194, 296117, 298041, 299968,
       301896, 303825, 305756, 307689, 309624, 311560, 313497, 315436, 317377, 319319,
       321263, 323208, 325155, 327103, 329053, 331004, 332957, 334911, 336867, 338824,
       340783, 342743, 344705, 346668, 348633, 350599, 352566, 354535, 356506, 358478,
       360451, 362425, 364401, 366379, 368358, 370338, 372319, 374302, 376287, 378272,
       380259, 382248, 384237, 386229, 388221, 390215, 392210, 394206, 396204, 398203,
       400203, 402205, 404208, 406212, 408218, 410225, 412233, 414242, 416253, 418265,
       420278, 422293, 424308, 426325, 428343, 430363, 432384, 434405, 436429, 438453,
       440479, 442505, 444533, 446563, 448593, 450625, 452658, 454692, 456727, 458763,
       460801, 462839, 464879, 466921, 468963, 471006, 473051, 475096, 477143, 479191,
       481241, 483291, 485342, 487395, 489448, 491503, 493559, 495616, 497674, 499734,
       501794, 503856, 505918, 507982, 510047, 512113, 514180, 516248, 518317, 520387,
       522458, 524531, 526604, 528679, 530754, 532831, 534908, 536987, 539067, 541148,
       543229, 545312, 547396, 549481, 551567, 553654, 555742, 557832, 559922, 562013,
       564105, 566198, 568292, 570387, 572484, 574581, 576679, 578778, 580878, 582979,
       585082, 587185, 589289, 591394, 593500, 595607, 597715, 599824, 601934, 604045,
       606157, 608270, 610383, 612498, 614614, 616731, 618848, 620967, 623086, 625207,
       627328, 629450, 631574, 633698, 635823, 637949, 640076, 642204, 644333, 646462,
       648593, 650724, 652857, 654990, 657125, 659260, 661396, 663533, 665671, 667809,
       669949, 672090, 674231, 676374, 678517, 680661, 682806, 684952, 687098, 689246,
       691395, 693544, 695694, 697845, 699997, 702150, 704304, 706458, 708614, 710770,
       712927, 715085, 717244, 719404, 721564, 723725, 725888, 728051, 730215, 732379,
       734545, 736711, 738878, 741046, 743215, 745385, 747556, 749727, 751899, 754072,
       756246, 758420, 760596, 762772, 764949, 767127, 769306, 771485, 773665, 775847,
       778028, 780211, 782395, 784579, 786764, 788950, 791136, 793324, 795512, 797701,
       799891, 802081, 804273, 806465, 808658, 810851, 813046, 815241, 817437, 819634,
       821831, 824030, 826229, 828429, 830629, 832831, 835033, 837236, 839439, 841644,
       843849, 846055, 848261, 850469, 852677, 854886, 857095, 859306, 861517, 863729,
       865941, 868155, 870369, 872583, 874799, 877015, 879232, 881450, 883668, 885888,
       888108, 890328, 892550, 894772, 896994, 899218, 901442, 903667, 905893, 908119,
       910346, 912574, 914803, 917032, 919262, 921492, 923724, 925956, 928188, 930422,
       932656, 934891, 937126, 939363, 941600, 943837, 946075, 948314, 950554, 952795,
       955036, 957277, 959520, 961763, 964007, 966251, 968496, 970742, 972989, 975236,
       977484, 979732, 981982, 984231, 986482, 988733, 990985, 993238, 995491, 997745,
       1000000 >>

\* entry k+1 is floor(10^6 * (k/510)^1.2): pow(abs(frmDeltaFrac), deltaPower), night, slow
PowTable120 ==
    << 0, 563, 1294, 2106, 2974, 3887, 4838, 5821, 6833, 7870,
       8931, 10013, 11115, 12236, 13374, 14528, 15698, 16883, 18081, 19293,
       20518, 21755, 23005, 24265, 25536, 26819, 28111, 29413, 30725, 32047,
       33378, 34717, 36065, 37422, 38787, 40160, 41541, 42929, 44325, 45729,
       47139, 48557, 49982, 51413, 52851, 54296, 55747, 57204, 58668, 60138,
       61614, 63095, 64583, 66076, 67575, 69079, 70589, 72105, 73625, 75151,
       76682, 78218, 79760, 81306, 82857, 84413, 85974, 87539, 89110, 90684,
       92264, 93848, 95436, 97029, 98626, 100228, 101833, 103443, 105058, 106676,
       108298, 109925, 111555, 113190, 114828, 116471, 118117, 119767, 121421, 123078,
       124740, 126405, 128074, 129746, 131422, 133101, 134784, 136471, 138161, 139855,
       141551, 143252, 144955, 146662, 148373, 150086, 151803, 153524, 155247, 156973,
       158703, 160436, 162172, 163911, 165653, 167399, 169147, 170898, 172653, 174410,
       176170, 177933, 179699, 181468, 183240, 185015, 186792, 188573, 190356, 192142,
       193931, 195722, 197517, 199313, 201113, 202916, 204721, 206528, 208339, 210152,
       211967, 213785, 215606, 217429, 219255, 221084, 222914, 224748, 226584, 228422,
       230263, 232106, 233952, 235800, 237651, 239504, 241360, 243217, 245077, 246940,
       248805, 250672, 252542, 254413, 256288, 258164, 260043, 261924, 263807, 265692,
       267580, 269470, 271362, 273256, 275153, 277052, 278952, 280856, 282761, 284668,
       286577, 288489, 290403, 292319, 294236, 296156, 298078, 300003, 301929, 303857,
       305787, 307720, 309654, 311590, 313529, 315469, 317411, 319356, 321302, 323250,
       325200, 327153, 329107, 331063, 333021, 334981, 336943, 338906, 340872, 342839,
       344809, 346780, 348753, 350728, 352705, 354684, 356664, 358647, 360631, 362617,
       364605, 366594, 368586, 370579, 372574, 374571, 376570, 378570, 380572, 382576,
       384582, 386589, 388598, 390609, 392622, 394636, 396652, 398670, 400689, 402710,
       404733, 406758, 408784, 410812, 412841, 414872, 416905, 418940, 420976, 423014,
       425053, 427094, 429137, 431181, 433227, 435275, 437324, 439375, 441427, 443481,
       445537, 447594, 449652, 451713, 453774, 455838, 457903, 459969, 462037, 464107,
       466178, 468251, 470325, 472401, 474478, 476557, 478637, 480719, 482802, 484887,
       486973, 489061, 491150, 493241, 495333, 497427, 499522, 501619, 503717, 505816,
       507917, 510020, 512124, 514229, 516336, 518444, 520554, 522665, 524777, 526891,
       529006, 531123, 533241, 535361, 537482, 539604, 541728, 543853, 545979, 548107,
       550237, 552367, 554499, 556633, 558767, 560903, 563041, 565180, 567320, 569461,
       571604, 573748, 575894, 578041, 580189, 582338, 584489, 586641, 588795, 590950,
       593106, 595263, 597422, 599582, 601743, 603906, 606070, 608235, 610401, 612569,
       614738, 616908, 619080, 621253, 623427, 625602, 627779, 629957, 632136, 634316,
       636498, 638681, 640865, 643051, 645237, 647425, 649614, 651804, 653996, 656189,
       658383, 660578, 662774, 664972, 667171, 669371, 671572, 673775, 675978, 678183,
       680389, 682597, 684805, 687015, 689226, 691438, 693651, 695865, 698081, 700297,
       702515, 704734, 706955, 709176, 711399, 713622, 715847, 718073, 720300, 722529,
       724758, 726989, 729220, 731453, 733687, 735922, 738159, 740396, 742635, 744874,
       747115, 749357, 751600, 753844, 756089, 758336, 760583, 762832, 765081, 767332,
       769584, 771837, 774091, 776346, 778603, 780860, 783119, 785378, 787639, 789900,
       792163, 794427, 796692, 798958, 801225, 803493, 805762, 808033, 810304, 812577,
       814850, 817125, 819400, 821677, 823954, 826233, 828513, 830794, 833076, 835359,
       837643, 839928, 842214, 844501, 846789, 849078, 851368, 853659, 855951, 858245,
       860539, 862834, 865131, 867428, 869726, 872026, 874326, 876627, 878930, 881233,
       883537, 885843, 888149, 890457, 892765, 895074, 897385, 899696, 902008, 904322,
       906636, 908951, 911268, 913585, 915903, 918222, 920543, 922864, 925186, 927509,
       929833, 932158, 934484, 936811, 939139, 941468, 943798, 946129, 948461, 950793,
       953127, 955462, 957797, 960134, 962472, 964810, 967149, 969490, 971831, 974173,
       976516, 978861, 981206, 983552, 985899, 988246, 990595, 992945, 995295, 997647,
       1000000 >>

\* entry m+1 is floor(10^6 * 2 * (m/2)^1.5): the guided step over a range of 2
GuideTable2 ==
    << 0, 707106, 2000000 >>

\* entry m+1 is floor(10^6 * 4 * (m/4)^1.5): the guided step over a range of 4
GuideTable4 ==
    << 0, 500000, 1414213, 2598076, 4000000 >>

\* entry m+1 is floor(10^6 * 8 * (m/8)^1.5): the guided step over a range of 8
GuideTable8 ==
    << 0, 353553, 1000000, 1837117, 2828427, 3952847, 5196152, 6547900, 8000000 >>

\* entry m+1 is floor(10^6 * 16 * (m/16)^1.5): the guided step over a range of 16
GuideTable16 ==
    << 0, 250000, 707106, 1299038, 2000000, 2795084, 3674234, 4630064, 5656854, 6750000,
       7905694, 9120718, 10392304, 11718041, 13095800, 14523687, 16000000 >>

\* pow(x, deltaPower) for x = k/510, as a multiple of 1/FP
PowFP(k, power) ==
    CASE power = 105 -> PowTable105[k + 1]
      [] power = 110 -> PowTable110[k + 1]
      [] power = 115 -> PowTable115[k + 1]
      [] power = 120 -> PowTable120[k + 1]

\* range * pow(m/range, 1.5), as a multiple of 1/FP
GuideFP(range, m) ==
    CASE range = 2  -> GuideTable2[m + 1]
      [] range = 4  -> GuideTable4[m + 1]
      [] range = 8  -> GuideTable8[m + 1]
      [] range = 16 -> GuideTable16[m + 1]

\* __property_value_as_fraction(v, 1.0, 256.0) with the fallbacks of
\* __tune_control_value_by_ID, in 510ths; v2 is twice the frame value
FrameFraction510(v2) == LimitPropertyValueToRange(v2 - 2, 0, 510)

\* __get_control_tune_power, times 100
GetControlTunePower(tod, imgProp, ctrlName, usePreferred) ==
    LET fastPow == IF tod = "Day" THEN 105 ELSE 110
        slowPow == IF tod = "Day" THEN 115 ELSE 120
    IN  IF imgProp = "Brightness"
           /\ (ctrlName = imgProp \/ ctrlName = "Gain") /\ usePreferred
        THEN fastPow
        ELSE IF imgProp = "Contrast" /\ ctrlName = imgProp /\ usePreferred
        THEN fastPow
        ELSE IF imgProp = "Saturation" /\ ctrlName = imgProp /\ usePreferred
        THEN fastPow
        ELSE slowPow

\* __compute_applied_delta(valFrac, tgtFrac, ctrlFrac, power), returned as
\* expFrac * range * FP, where ctrlFrac = cN / range and the frame delta is
\* d510 / 510
ComputeAppliedDelta(d510, cN, range, power) ==
    LET sgn == IF d510 >= 0 THEN 1 ELSE -1
        dCtrlFrac == sgn * PowFP(Abs(d510), power) * range
    IN  IF cN * FP + dCtrlFrac > range * FP
        THEN ((range - cN) * FP) \div 2
        ELSE dCtrlFrac

\* the step limit drawn in __tune_control_value_by_ID: draw is the
\* hundredths drawn by random.uniform(0.01, 0.15), or the random.randint(1, 15)
StepLimit(range, draw) ==
    IF range = 0 THEN 0
    ELSE IF range > 15
         THEN (IF range <= 100 THEN (range * draw) \div 100 ELSE draw)
         ELSE 1

\* __tune_control_value_by_ID: dCtrlFrac, the control fraction after the
\* computed delta is applied with the polarity dNeg, as dCtrlFrac * range * FP
TunedControlFraction(value, qMin, qMax, v2, t2, dNeg, power) ==
    LET range == Abs(qMax - qMin)
        d510  == FrameFraction510(t2) - FrameFraction510(v2)
        cN    == LimitPropertyValueToRange(value, qMin, qMax) - qMin
        exp0  == ComputeAppliedDelta(d510, cN, range, power)
        small == Abs(d510) * 10 * range <= 510
        expV  == IF small THEN 0 ELSE exp0
    IN  IF dNeg THEN cN * FP - expV ELSE cN * FP + expV

\* __tune_control_value_by_ID for a control of type integer: the new value.
\*   value        the pending setting, qMin..qMax the descriptor range
\*   v2, t2       twice the last frame value and twice the target
TuneControlValue(value, qMin, qMax, v2, t2, dNeg, power, draw) ==
    LET range  == Abs(qMax - qMin)
        d510   == FrameFraction510(t2) - FrameFraction510(v2)
        limit  == StepLimit(range, draw)
        cN     == LimitPropertyValueToRange(value, qMin, qMax) - qMin
        small  == Abs(d510) * 10 * range <= 510
        dFrame == IF small THEN 0 ELSE d510
        dV     == TunedControlFraction(value, qMin, qMax, v2, t2, dNeg, power)
        vFrac  == IF dV < 0 THEN qMin * FP
                  ELSE IF dV > range * FP THEN qMax * FP
                  ELSE dV + qMin * FP
        vCap   == IF Abs(vFrac - value * FP) > limit * FP
                  THEN (IF vFrac >= value * FP
                        THEN (value + limit) * FP
                        ELSE (value - limit) * FP)
                  ELSE vFrac
        vNew   == IF dFrame # 0 THEN vCap ELSE value * FP
        moved  == dFrame # 0 /\ dV # cN * FP
        vNudge == IF IntTrunc(vNew) = value
                  THEN (IF moved
                        THEN (IF dV > cN * FP THEN vNew + FP ELSE vNew - FP)
                        ELSE IF dFrame # 0
                        THEN (IF dFrame > 0 THEN vNew + FP ELSE vNew - FP)
                        ELSE vNew)
                  ELSE vNew
    IN  IntTrunc(LimitPropertyValueToRange(vNudge, qMin * FP, qMax * FP))

(***************************************************************************)
(* CSDevs exposure tuning: the pending settings, the tuners and the        *)
(* rotation cursors.  w is the CSDevs object.  Indexes are the program's   *)
(* (from 0, -1 for "none"); a sequence of the model is read at index + 1.  *)
(* A tuner names its control by the control's id.                          *)
(***************************************************************************)
\* CSDevs.tuneProperties
tuneProperties == <<"Brightness", "Contrast", "Saturation">>

\* the most passes of a search loop that are followed
MaxSearch == 24

SeqRange(q) == {q[i] : i \in 1..Len(q)}

\* the element of a set of one element; a result that later steps read
\* many times is computed once by binding it as { ... : x \in {result} }
TheOne(S) == CHOOSE x \in S : TRUE

\* CSDevs.add_control_setting_by_ID: a value of None is refused (TypeError)
WinAddControlSettingByID(w, ctrlID, isNone, value) ==
    IF isNone THEN w
    ELSE [w EXCEPT !.controls = Append(@, [id |-> ctrlID, value |-> value])]

\* CSDevs.remove_control_setting_by_ID
WinRemoveControlSettingByID(w, ctrlID) ==
    LET i == IndexOfId(w.controls, ctrlID, 1)
    IN  IF i = 0 THEN w ELSE [w EXCEPT !.controls = RemoveAt(@, i)]

\* CSDevs.replace_control_setting_by_ID
WinReplaceControlSettingByID(w, ctrlID, isNone, newValue) ==
    WinAddControlSettingByID(WinRemoveControlSettingByID(w, ctrlID),
                             ctrlID, isNone, newValue)

\* __create_best_fit_control_setting_by_name
CreateBestFitControlSettingByName(w, ctrlID) ==
    IF IndexOfId(w.controls, ctrlID, 1) # 0 THEN w
    ELSE IF ctrlID \notin DOMAIN w.descriptors THEN w
    ELSE IF w.descriptors[ctrlID].type # "integer" THEN w
    ELSE WinAddControlSettingByID(w, ctrlID, FALSE,
                                  w.descriptors[ctrlID].default_value)

RECURSIVE TuningControlIndexFrom(_, _, _, _, _)
\* __tuning_control_index_for_property_TOD_index, scanning from index i
\* with iOfProperty tuners of the property seen so far
TuningControlIndexFrom(tuners, property, iTarget, i, iOfProperty) ==
    IF i >= Len(tuners) THEN -1
    ELSE IF tuners[i + 1].property = property
         THEN (IF iOfProperty + 1 = iTarget THEN i
               ELSE TuningControlIndexFrom(tuners, property, iTarget,
                                           i + 1, iOfProperty + 1))
         ELSE TuningControlIndexFrom(tuners, property, iTarget,
                                     i + 1, iOfProperty)

\* __tuning_control_index_for_property_TOD_index
TuningControlIndexForPropertyTODIndex(tuners, property, iTarget) ==
    TuningControlIndexFrom(tuners, property, iTarget, 0, -1)

\* __first_tuning_ctrl_index_by_property_TOD
FirstTuningCtrlIndexByPropertyTOD(tuners, property) ==
    TuningControlIndexFrom(tuners, property, 0, 0, -1)

RECURSIVE TuningStateIndexFrom(_, _, _)
TuningStateIndexFrom(cursors, property, i) ==
    IF i >= Len(cursors) THEN -1
    ELSE IF cursors[i + 1].property = property THEN i
    ELSE TuningStateIndexFrom(cursors, property, i + 1)

\* tuning_state_index_by_property
TuningStateIndexByProperty(cursors, property) ==
    IF property \in SeqRange(tuneProperties)
    THEN TuningStateIndexFrom(cursors, property, 0)
    ELSE -1

RECURSIVE CountTuners(_, _, _)
CountTuners(tuners, property, i) ==
    IF i > Len(tuners) THEN 0
    ELSE (IF tuners[i].property = property THEN 1 ELSE 0)
         + CountTuners(tuners, property, i + 1)

RECURSIVE PopulateFrom(_, _, _)
PopulateFrom(tuners, i, info) ==
    IF i > Len(tuners) THEN info
    ELSE IF TuningStateIndexFrom(info, tuners[i].property, 0) = -1
         THEN PopulateFrom(tuners, i + 1,
                  Append(info, [property |-> tuners[i].property, iCtrl |-> 0,
                                iCount |-> CountTuners(tuners, tuners[i].property, 1)]))
         ELSE PopulateFrom(tuners, i + 1, info)

\* __populate_image_tuning_control_info
PopulateImageTuningControlInfo(tuners) == PopulateFrom(tuners, 1, <<>>)

\* a rotation that forgets which controls were tuned
NeverAlreadyTuned(tunedControls, ctrlID) == FALSE

\* __next_tuning_control_index_by_property_TOD: the control was already
\* tuned in this pass of __tune_exposure
AlreadyTuned(tunedControls, ctrlID) == ctrlID \in SeqRange(tunedControls)

RECURSIVE NextTuningLoop(_, _, _, _, _, _, _, _, _)
\* a while loop of __next_tuning_control_index_by_property_TOD that does
\* not count the times it has been round the list
NextTuningLoopUncounted(w, property, iState, iCtrl, iCount, iFirst, ctrlNotFound, skippedCount, fuel) ==
    IF fuel = 0 THEN [w |-> w, iTuner |-> -1, diverged |-> TRUE]
    ELSE
    LET iTuner == TuningControlIndexForPropertyTODIndex(
                      w.tuningControlSettings, property, iCtrl)
    IN  IF iTuner = -1
        THEN IF ctrlNotFound
             THEN [w |-> w, iTuner |-> -1, diverged |-> FALSE]
             ELSE NextTuningLoop(w, property, iState,
                      FirstTuningCtrlIndexByPropertyTOD(
                          w.tuningControlSettings, property),
                      iCount, -1, TRUE, skippedCount, fuel - 1)
        ELSE IF iFirst = iTuner
        THEN [w |-> w, iTuner |-> -1, diverged |-> FALSE]
        ELSE
        LET aTuner  == w.tuningControlSettings[iTuner + 1]
            had     == IndexOfId(w.controls, aTuner.ctrl, 1) # 0
            w1      == IF had THEN w
                       ELSE CreateBestFitControlSettingByName(w, aTuner.ctrl)
            created == Len(w1.controls) # Len(w.controls)
            w1a     == IF created
                       THEN [w1 EXCEPT !.tuneLog = Append(@,
                                [kind |-> "create", property |-> property,
                                 tuner |-> iTuner, ctrl |-> aTuner.ctrl,
                                 rMin |-> aTuner.rMin, rMax |-> aTuner.rMax,
                                 encourageRange |-> aTuner.encourageRange,
                                 old |-> w.descriptors[aTuner.ctrl].default_value,
                                 new |-> w.descriptors[aTuner.ctrl].default_value])]
                       ELSE w1
            tuned   == had /\ AlreadyTuned(w.tunedControls, aTuner.ctrl)
            aCtrl   == IF had THEN ~tuned ELSE created
            iFirst2 == IF tuned THEN -1
                       ELSE IF iFirst = -1 THEN iTuner ELSE iFirst
            notFnd2 == IF tuned THEN FALSE ELSE ctrlNotFound
            wrap    == iCtrl + 1 >= iCount
            iCtrl2  == IF wrap THEN 0 ELSE iCtrl + 1
            skip2   == IF wrap THEN skippedCount + 1 ELSE skippedCount
            w2      == [w1a EXCEPT !.imageTuningControls[iState + 1] =
                           [property |-> property, iCtrl |-> iCtrl2,
                            iCount |-> iCount]]
        IN  IF FALSE
            THEN [w |-> w1a, iTuner |-> -1, diverged |-> FALSE]
            ELSE IF aCtrl /\ aTuner.rMax - aTuner.rMin > 1
            THEN [w |-> w2, iTuner |-> iTuner, diverged |-> FALSE]
            ELSE TheOne({ NextTuningLoop(wNext, property, iState, iCtrl2,
                                         iCount, iFirst2, notFnd2, skip2,
                                         fuel - 1) : wNext \in {w2} })

\* __next_tuning_control_index_by_property_TOD: the while loop
NextTuningLoop(w, property, iState, iCtrl, iCount, iFirst, ctrlNotFound, skippedCount, fuel) ==
    IF fuel = 0 THEN [w |-> w, iTuner |-> -1, diverged |-> TRUE]
    ELSE
    LET iTuner == TuningControlIndexForPropertyTODIndex(
                      w.tuningControlSettings, property, iCtrl)
    IN  IF iTuner = -1
        THEN IF ctrlNotFound
             THEN [w |-> w, iTuner |-> -1, diverged |-> FALSE]
             ELSE NextTuningLoop(w, property, iState,
                      FirstTuningCtrlIndexByPropertyTOD(
                          w.tuningControlSettings, property),
                      iCount, -1, TRUE, skippedCount, fuel - 1)
        ELSE IF iFirst = iTuner
        THEN [w |-> w, iTuner |-> -1, diverged |-> FALSE]
        ELSE
        LET aTuner  == w.tuningControlSettings[iTuner + 1]
            had     == IndexOfId(w.controls, aTuner.ctrl, 1) # 0
            w1      == IF had THEN w
                       ELSE CreateBestFitControlSettingByName(w, aTuner.ctrl)
            created == Len(w1.controls) # Len(w.controls)
            w1a     == IF created
                       THEN [w1 EXCEPT !.tuneLog = Append(@,
                                [kind |-> "create", property |-> property,
                                 tuner |-> iTuner, ctrl |-> aTuner.ctrl,
                                 rMin |-> aTuner.rMin, rMax |-> aTuner.rMax,
                                 encourageRange |-> aTuner.encourageRange,
                                 old |-> w.descriptors[aTuner.ctrl].default_value,
                                 new |-> w.descriptors[aTuner.ctrl].default_value])]
                       ELSE w1
            tuned   == had /\ AlreadyTuned(w.tunedControls, aTuner.ctrl)
            aCtrl   == IF had THEN ~tuned ELSE created
            iFirst2 == IF tuned THEN -1
                       ELSE IF iFirst = -1 THEN iTuner ELSE iFirst
            notFnd2 == IF tuned THEN FALSE ELSE ctrlNotFound
            wrap    == iCtrl + 1 >= iCount
            iCtrl2  == IF wrap THEN 0 ELSE iCtrl + 1
            skip2   == IF wrap THEN skippedCount + 1 ELSE skippedCount
            w2      == [w1a EXCEPT !.imageTuningControls[iState + 1] =
                           [property |-> property, iCtrl |-> iCtrl2,
                            iCount |-> iCount]]
        IN  IF wrap /\ skip2 > Len(tuneProperties)
            THEN [w |-> w1a, iTuner |-> -1, diverged |-> FALSE]
            ELSE IF aCtrl /\ aTuner.rMax - aTuner.rMin > 1
            THEN [w |-> w2, iTuner |-> iTuner, diverged |-> FALSE]
            ELSE TheOne({ NextTuningLoop(wNext, property, iState, iCtrl2,
                                         iCount, iFirst2, notFnd2, skip2,
                                         fuel - 1) : wNext \in {w2} })

\* __next_tuning_control_index_by_property_TOD
NextTuningControlIndexByPropertyTOD(w, property) ==
    LET iState == TuningStateIndexByProperty(w.imageTuningControls, property)
    IN  IF iState = -1
        THEN [w |-> w, iTuner |-> -1, diverged |-> FALSE]
        ELSE NextTuningLoop(w, property, iState,
                            w.imageTuningControls[iState + 1].iCtrl,
                            w.imageTuningControls[iState + 1].iCount,
                            -1, FALSE, 0, MaxSearch)

(***************************************************************************)
(* The limits of the control being tuned, the decision to tune it and the  *)
(* restriction of the tuned value.  Frame values and targets are whole     *)
(* numbers; a target midpoint is held doubled (min + max).                 *)
(***************************************************************************)
\* __frame_last_value_by_property
FrameLastValueByProperty(w, property) ==
    IF property = "Brightness" THEN w.lastFrame.brightness
    ELSE IF property = "Contrast" THEN w.lastFrame.contrast
    ELSE IF property = "Saturation" THEN w.lastFrame.saturation
    ELSE -1

\* __preferred_target_by_property for the time of day in use
PreferredTargetByProperty(w, property, getTargetMax) ==
    IF getTargetMax THEN w.targets[property].max ELSE w.targets[property].min

\* tgtMin + (tgtMax - tgtMin) / 2.0, doubled
Target2(w, property) ==
    PreferredTargetByProperty(w, property, FALSE)
    + PreferredTargetByProperty(w, property, TRUE)

\* the test of one masking property in __property_masked
MaskedBy(w, masking) ==
    LET l    == FrameLastValueByProperty(w, masking)
        minT == PreferredTargetByProperty(w, masking, FALSE)
        maxT == PreferredTargetByProperty(w, masking, TRUE)
        t2   == Target2(w, masking)
    IN  (l < minT \/ l > maxT) /\ 2 * Abs(t2 - 2 * l) > t2

\* a __property_masked that never masks
PropertyNeverMasked(w, property) == FALSE

\* __property_masked
PropertyMasked(w, property) ==
    IF property = "Brightness" THEN FALSE
    ELSE IF MaskedBy(w, "Brightness") THEN TRUE
    ELSE IF property = "Saturation" THEN MaskedBy(w, "Contrast")
    ELSE FALSE

\* set_named_control_limits(ctrlName, min, max, encourageLimits=...)
SetNamedControlLimits(w, ctrlID, min, max, encourageLimits) ==
    LET found == ctrlID \in DOMAIN w.descriptors
        lo    == IF found THEN w.descriptors[ctrlID].minimum ELSE 0
        hi    == IF found THEN w.descriptors[ctrlID].maximum ELSE 64
    IN  [w EXCEPT !.noClamp = ~encourageLimits,
                  !.noClampLoLimit = lo,
                  !.noClampHiLimit = hi,
                  !.loLimit = min,
                  !.hiLimit = max]

RECURSIVE AllPropertiesHiLimit(_, _, _, _)
AllPropertiesHiLimit(tuners, ctrlID, i, hiLimit) ==
    IF i > Len(tuners) THEN hiLimit
    ELSE AllPropertiesHiLimit(tuners, ctrlID, i + 1,
             IF tuners[i].ctrl = ctrlID /\ tuners[i].rMax > hiLimit
             THEN tuners[i].rMax ELSE hiLimit)

\* use_named_control_all_properties_hi_limit
UseNamedControlAllPropertiesHiLimit(w, ctrlID) ==
    [w EXCEPT !.hiLimit =
         AllPropertiesHiLimit(w.tuningControlSettings, ctrlID, 1, w.hiLimit)]

RECURSIVE AllPropertiesLoLimit(_, _, _, _)
AllPropertiesLoLimit(tuners, ctrlID, i, loLimit) ==
    IF i > Len(tuners) THEN loLimit
    ELSE AllPropertiesLoLimit(tuners, ctrlID, i + 1,
             IF tuners[i].ctrl = ctrlID /\ tuners[i].rMin < loLimit
             THEN tuners[i].rMin ELSE loLimit)

\* use_named_control_all_properties_lo_limit
UseNamedControlAllPropertiesLoLimit(w, ctrlID) ==
    [w EXCEPT !.loLimit =
         AllPropertiesLoLimit(w.tuningControlSettings, ctrlID, 1, w.loLimit)]

\* __can_tune_property; last2 and tgt2 are the doubled frame value and target
CanTuneProperty(w, ctrlID, last2, tgt2, ctrlVal, negativeEffect, encourageLimits) ==
    IF last2 < tgt2
    THEN LET w1 == IF ctrlVal > w.hiLimit /\ encourageLimits
                   THEN UseNamedControlAllPropertiesHiLimit(w, ctrlID)
                   ELSE w
         IN  [w  |-> w1,
              ok |-> IF negativeEffect THEN ctrlVal > w1.loLimit
                     ELSE ctrlVal < w1.hiLimit]
    ELSE IF last2 > tgt2
    THEN LET w1 == IF ctrlVal < w.loLimit /\ encourageLimits
                   THEN UseNamedControlAllPropertiesLoLimit(w, ctrlID)
                   ELSE w
         IN  [w  |-> w1,
              ok |-> IF negativeEffect THEN ctrlVal < w1.hiLimit
                     ELSE ctrlVal > w1.loLimit]
    ELSE [w |-> w, ok |-> FALSE]

\* a value or None
None == [none |-> TRUE, v |-> 0]
Some(v) == [none |-> FALSE, v |-> v]

\* __tune_control_value_by_ID(aCtrl.id, lastValue, tgtVal, 256.0, rForce,
\* dNeg, imgProp=property): None unless the control is of type integer
TuneControlValueByID(w, ctrlID, property, dNeg, draw) ==
    LET i == IndexOfId(w.controls, ctrlID, 1)
    IN  IF i = 0 \/ ctrlID \notin DOMAIN w.descriptors THEN None
        ELSE IF w.descriptors[ctrlID].type # "integer" THEN None
        ELSE
        LET q      == w.descriptors[ctrlID]
            vFrame == FrameLastValueByProperty(w, property)
            preferredPower ==
                vFrame < PreferredTargetByProperty(w, property, FALSE)
                \/ vFrame > PreferredTargetByProperty(w, property, TRUE)
            usePower == GetControlTunePower(w.lastTOD, property, q.name,
                                            preferredPower)
        IN  Some(TuneControlValue(w.controls[i].value, q.minimum, q.maximum,
                                  2 * vFrame, Target2(w, property), dNeg,
                                  usePower, draw))

\* a __guide_control_value_to_current_range that moves the value away from
\* the range it is outside of
GuideControlValueAwayFromRange(w, iCtrl) ==
    IF ~w.noClamp THEN [ae |-> TRUE, v |-> iCtrl]
    ELSE IF ~(w.noClampLoLimit <= w.loLimit /\ w.noClampHiLimit >= w.hiLimit)
    THEN [ae |-> FALSE, v |-> iCtrl]
    ELSE LET range == w.noClampHiLimit - w.noClampLoLimit
         IN  IF iCtrl < w.loLimit
             THEN [ae |-> FALSE,
                   v  |-> IntTrunc(iCtrl * FP - GuideFP(range, w.loLimit - iCtrl))]
             ELSE IF iCtrl > w.hiLimit
             THEN [ae |-> FALSE,
                   v  |-> IntTrunc(iCtrl * FP + GuideFP(range, iCtrl - w.hiLimit))]
             ELSE [ae |-> TRUE, v |-> iCtrl]

\* a __guide_control_value_to_current_range that puts a value outside the
\* range onto the nearest bound
GuideControlValueOntoBound(w, iCtrl) ==
    IF ~w.noClamp THEN [ae |-> TRUE, v |-> iCtrl]
    ELSE IF iCtrl < w.loLimit THEN [ae |-> FALSE, v |-> w.loLimit]
    ELSE IF iCtrl > w.hiLimit THEN [ae |-> FALSE, v |-> w.hiLimit]
    ELSE [ae |-> TRUE, v |-> iCtrl]

\* __guide_control_value_to_current_range: ae when it raises AttributeError
GuideControlValueToCurrentRange(w, iCtrl) ==
    IF ~w.noClamp THEN [ae |-> TRUE, v |-> iCtrl]
    ELSE IF ~(w.noClampLoLimit <= w.loLimit /\ w.noClampHiLimit >= w.hiLimit)
    THEN [ae |-> FALSE, v |-> iCtrl]
    ELSE LET range == w.noClampHiLimit - w.noClampLoLimit
         IN  IF iCtrl < w.loLimit
             THEN [ae |-> FALSE,
                   v  |-> IntTrunc(iCtrl * FP + GuideFP(range, w.loLimit - iCtrl))]
             ELSE IF iCtrl > w.hiLimit
             THEN [ae |-> FALSE,
                   v  |-> IntTrunc(iCtrl * FP - GuideFP(range, iCtrl - w.hiLimit))]
             ELSE [ae |-> TRUE, v |-> iCtrl]

\* __limit_control_value_to_current_range
LimitControlValueToCurrentRange(w, aVal) ==
    IF aVal.none THEN aVal
    ELSE LET g == GuideControlValueToCurrentRange(w, aVal.v)
         IN  IF ~g.ae THEN Some(g.v)
             ELSE LET a == IF aVal.v < w.loLimit THEN w.loLimit ELSE aVal.v
                  IN  Some(IF a > w.hiLimit THEN w.hiLimit ELSE a)

(***************************************************************************)
(* One property's tuning and the whole of __tune_exposure.  draws gives,   *)
(* for each tuner, the step limit the random generator draws when that     *)
(* tuner's control is tuned.  w.tuneLog records what a call of             *)
(* __tune_exposure did to the pending settings, in order; it is kept by    *)
(* the specification of the tuning alone.                                  *)
(***************************************************************************)
LogEntry(kind, property, iTuner, aTuner, old, new) ==
    [kind |-> kind, property |-> property, tuner |-> iTuner,
     ctrl |-> aTuner.ctrl, rMin |-> aTuner.rMin, rMax |-> aTuner.rMax,
     encourageRange |-> aTuner.encourageRange, old |-> old, new |-> new]

RECURSIVE TunePropertyLoop(_, _, _, _, _)

\* __tune_property_by_nameA, one pass of the while loop once the limits are
\* set and __can_tune_property has answered c
TunePropertyTry(c, property, iTune, iFirst, draws, fuel) ==
    LET aTuner    == c.w.tuningControlSettings[iTune + 1]
        lastValue == FrameLastValueByProperty(c.w, property)
        aVal      == TuneControlValueByID(c.w, aTuner.ctrl, property,
                                          aTuner.negativeUse,
                                          draws[iTune + 1])
    IN  IF ~c.ok
        THEN TunePropertyLoop(c.w, property, iFirst, draws, fuel - 1)
        ELSE TheOne({
               IF ~vCtrl.none /\ vCtrl.v = lastValue
               THEN TunePropertyLoop(c.w, property, iFirst, draws, fuel - 1)
               ELSE [w |-> c.w, iTune |-> iTune, vCtrl |-> vCtrl,
                     diverged |-> FALSE]
               : vCtrl \in {LimitControlValueToCurrentRange(c.w, aVal)} })

\* __tune_property_by_nameA, one pass of the while loop once
\* __next_tuning_control_index_by_property_TOD has answered r
TunePropertyPass(r, property, iFirst, draws, fuel) ==
    IF r.diverged
    THEN [w |-> r.w, iTune |-> -1, vCtrl |-> None, diverged |-> TRUE]
    ELSE IF iFirst = r.iTuner \/ r.iTuner < 0
    THEN [w |-> r.w, iTune |-> -1, vCtrl |-> None, diverged |-> FALSE]
    ELSE
    LET iTune   == r.iTuner
        iFirst1 == IF iFirst < 0 THEN iTune ELSE iFirst
        aTuner  == r.w.tuningControlSettings[iTune + 1]
        aCtrl   == r.w.controls[IndexOfId(r.w.controls, aTuner.ctrl, 1)]
    IN  TheOne({ TunePropertyTry(c, property, iTune, iFirst1, draws, fuel)
                 : c \in { TheOne({ CanTuneProperty(
                                        w1, aTuner.ctrl,
                                        2 * FrameLastValueByProperty(w1, property),
                                        Target2(w1, property), aCtrl.value,
                                        aTuner.negativeUse,
                                        aTuner.encourageRange)
                                    : w1 \in { SetNamedControlLimits(
                                                   r.w, aTuner.ctrl,
                                                   aTuner.rMin, aTuner.rMax,
                                                   aTuner.encourageRange) } }) } })

\* __tune_property_by_nameA: the while loop.  The result is the tuner to
\* commit (iTune, -1 for none) and the value to commit for its control.
TunePropertyLoop(w, property, iFirst, draws, fuel) ==
    IF fuel = 0
    THEN [w |-> w, iTune |-> -1, vCtrl |-> None, diverged |-> TRUE]
    ELSE TheOne({ TunePropertyPass(r, property, iFirst, draws, fuel)
                  : r \in {NextTuningControlIndexByPropertyTOD(w, property)} })

\* __tune_property_by_nameA: the commit of the result r of the loop
TunePropertyCommit(r, property) ==
    IF r.diverged THEN [r.w EXCEPT !.diverged = TRUE]
    ELSE IF r.iTune < 0 THEN r.w
    ELSE
    LET aTuner == r.w.tuningControlSettings[r.iTune + 1]
        old    == r.w.controls[IndexOfId(r.w.controls, aTuner.ctrl, 1)].value
        w1     == [r.w EXCEPT
                      !.tunedControls = Append(@, aTuner.ctrl),
                      !.tuneLog = Append(@,
                          LogEntry(IF r.vCtrl.none THEN "drop" ELSE "tune",
                                   property, r.iTune, aTuner, old,
                                   r.vCtrl.v))]
    IN  WinReplaceControlSettingByID(w1, aTuner.ctrl, r.vCtrl.none, r.vCtrl.v)

\* __tune_property_by_nameA
TunePropertyByNameA(w, property, draws) ==
    IF FrameLastValueByProperty(w, property) < 0 THEN w
    ELSE IF PropertyMasked(w, property) THEN w
    ELSE TheOne({ TunePropertyCommit(r, property)
                  : r \in {TunePropertyLoop(w, property, -1, draws, MaxSearch)} })

RECURSIVE TuneProperties(_, _, _)
\* __tune_exposure: the loop over tuneProperties from the i-th on
TuneProperties(w, i, draws) ==
    IF i > Len(tuneProperties) THEN w
    ELSE TheOne({ TuneProperties(w1, i + 1, draws)
                  : w1 \in {TunePropertyByNameA(w, tuneProperties[i], draws)} })

\* __tune_exposure
TuneExposure(w, draws) ==
    TheOne({ TuneProperties(w0, 1, draws)
             : w0 \in {[w EXCEPT !.tunedControls = <<>>, !.tuneLog = <<>>]} })

(***************************************************************************)
(* CSDevs: the capture timer, the ticks and the end of a capture.          *)
(***************************************************************************)
\* a frame_tick that does not look at capThread
TickNeverIgnored(thread) == FALSE

\* frame_tick: a tick is ignored while a capture thread exists
TickIgnored(thread) == thread

RECURSIVE CopyControls(_, _, _)
\* frame_tick: every pending setting is handed to the thread
CopyControls(ctl, controls, i) ==
    IF i > Len(controls) THEN ctl
    ELSE CopyControls(ThreadReplaceControlSettingByID(ctl, controls[i].id,
                                                      controls[i].value),
                      controls, i + 1)

\* frame_tick: the settings of the thread once the pending settings and the
\* focus settings are handed over (camFocus = -1 is None)
HandOverControls(ctl, w) ==
    IF Len(w.controls) = 0 THEN ctl
    ELSE LET c1 == CopyControls(ctl, w.controls, 1)
             c2 == IF w.camAFID # -1
                   THEN ThreadReplaceControlSettingByID(c1, w.camAFID,
                                                   IF w.camAF THEN 1 ELSE 0)
                   ELSE c1
         IN  IF w.camMFID # -1 /\ w.camFocus # -1
             THEN ThreadReplaceControlSettingByID(c2, w.camMFID, w.camFocus)
             ELSE c2

\* frame_tick: the captureThread object as it is when start() is called
ConfigureCaptureThread(buffers, w, nthFrame, save) ==
    LET t == NewCaptureThread(buffers)
    IN  [t EXCEPT !.brokenRx = TRUE,
                  !.bufCount = 40,
                  !.capFrame = nthFrame,
                  !.saveFile = save /\ w.capFile,
                  !.caption = w.caption,
                  !.focusManualID = IF Len(w.controls) > 0 THEN w.camMFID ELSE @,
                  !.focusAutoID = IF Len(w.controls) > 0 THEN w.camAFID ELSE @,
                  !.pending = HandOverControls(<<>>, w)]

\* frame_tick: where the handle the thread is given comes from.  It is the
\* one CSDevs held ("reused"), one opened because CSDevs held none
\* ("opened"), or one opened after the handle CSDevs held was closed
\* ("reopened"); th.handle keeps this until run() issues its first device
\* operation.
HandleOrigin(before, closed) ==
    IF closed # "none" THEN "reused"
    ELSE IF before = "none" THEN "opened"
    ELSE "reopened"

\* frame_tick
FrameTickBody(save) ==
    IF TickIgnored(capThread)
    THEN /\ wastedCapTicks < MaxWasted
         /\ wastedCapTicks' = wastedCapTicks + 1
         /\ UNCHANGED <<capThread, th, tpc, tClosed, tcontrols, capDev,
                        lastCapBroke, devBusy, win>>
    ELSE \E okOpen \in BOOLEAN, nthFrame \in 0..MaxFrame :
           LET dev1 == IF lastCapBroke THEN CloseCamera(capDev) ELSE capDev
               dev2 == OpenCamera(dev1, okOpen)
           IN  /\ lastCapBroke' = FALSE
               /\ capDev' = dev2
               /\ devBusy' = IF dev1 = "none" THEN FALSE ELSE devBusy
               /\ IF dev2 # "none"
                  THEN /\ capThread' = TRUE
                       /\ th' = [ConfigureCaptureThread(th.buffers, win,
                                                        nthFrame, save)
                                   EXCEPT !.handle = HandleOrigin(capDev, dev1)]
                       /\ tcontrols' = HandOverControls(tcontrols, win)
                       /\ tClosed' = FALSE
                       /\ tpc' = "run"
                  ELSE UNCHANGED <<capThread, th, tcontrols, tClosed, tpc>>
               /\ UNCHANGED <<wastedCapTicks, win>>

\* the capture timer fires: frame_tick
TimerTick ==
    /\ timerActive
    /\ FrameTickBody(frameCaptureAndSave)
    /\ UNCHANGED <<timerActive, pendingTick, pendingNoSave,
                   frameCaptureAndSave>>

\* the single shot of set_capture_interval fires: frame_tick
SingleShotTick ==
    /\ pendingTick
    /\ pendingTick' = FALSE
    /\ FrameTickBody(frameCaptureAndSave)
    /\ UNCHANGED <<timerActive, pendingNoSave, frameCaptureAndSave>>

\* the single shot of capture_finished fires: frame_tick_no_save
FrameTickNoSave ==
    /\ pendingNoSave
    /\ pendingNoSave' = FALSE
    /\ IF capThread
       THEN UNCHANGED <<capThread, th, tpc, tClosed, tcontrols, capDev,
                        lastCapBroke, devBusy, win, wastedCapTicks,
                        frameCaptureAndSave>>
       ELSE /\ frameCaptureAndSave' = FALSE
            /\ FrameTickBody(FALSE)
    /\ UNCHANGED <<timerActive, pendingTick>>

\* the draws of the random generator, one per tuner
DrawSet == {1, 15}

\* capture_finished, connected to the finished signal of the thread
CaptureFinished ==
    /\ capThread
    /\ RunReturned(tpc)
    /\ frameCaptureAndSave' = TRUE
    /\ lastCapBroke' = th.brokenRx
    /\ IF ~th.brokenRx
       THEN \E draws \in [1..Len(win.tuningControlSettings) -> DrawSet] :
              win' = [TuneExposure([win EXCEPT !.lastFrame = th.stats],
                                   draws) EXCEPT !.tuneLog = <<>>]
       ELSE win' = [win EXCEPT !.lastFrame.contrast = -1,
                               !.lastFrame.saturation = -1]
    /\ \E enoughTime \in BOOLEAN :
          pendingNoSave' = IF timerActive /\ enoughTime THEN TRUE
                           ELSE pendingNoSave
    /\ capThread' = FALSE
    /\ th' = NewCaptureThread(th.buffers)
    /\ tClosed' = FALSE
    /\ tpc' = "idle"
    /\ UNCHANGED <<tcontrols, capDev, timerActive, pendingTick,
                   wastedCapTicks, devBusy>>

\* toggle_monitor
ToggleMonitor ==
    /\ IF timerActive
       THEN /\ timerActive' = FALSE
            /\ capDev' = CloseCamera(capDev)
            /\ tClosed' = ThreadHandleClosed(capDev, tpc, tClosed)
            /\ devBusy' = FALSE
       ELSE /\ \E okOpen \in BOOLEAN : capDev' = OpenCamera(capDev, okOpen)
            /\ UNCHANGED <<timerActive, tClosed, devBusy>>
    /\ UNCHANGED <<capThread, th, tpc, tcontrols, lastCapBroke, pendingTick,
                   pendingNoSave, frameCaptureAndSave, wastedCapTicks, win>>

\* frame_size_selected with a capture file set
FrameSizeSelected ==
    /\ win.capFile
    /\ \E okOpen \in BOOLEAN :
          capDev' = OpenCamera(CloseCamera(capDev), okOpen)
    /\ tClosed' = ThreadHandleClosed(capDev, tpc, tClosed)
    /\ devBusy' = FALSE
    /\ timerActive' = TRUE
    /\ pendingTick' = TRUE
    /\ UNCHANGED <<capThread, th, tpc, tcontrols, lastCapBroke,
                   pendingNoSave, frameCaptureAndSave, wastedCapTicks, win>>

\* int_control_changed for the control shown in the window
IntControlChanged ==
    /\ capDev # "none"
    /\ \E ctrlID \in DOMAIN win.descriptors :
         /\ win.descriptors[ctrlID].type = "integer"
         /\ \E value \in {win.descriptors[ctrlID].minimum,
                          win.descriptors[ctrlID].maximum} :
              win' = [WinReplaceControlSettingByID(win, ctrlID, FALSE, value)
                         EXCEPT !.tuneLog = <<>>, !.history = <<>>]
    /\ UNCHANGED capVars

\* menu_control_changed for the control shown in the window
MenuControlChanged ==
    /\ capDev # "none"
    /\ \E ctrlID \in DOMAIN win.descriptors :
         /\ win.descriptors[ctrlID].type = "menu"
         /\ \E value \in {win.descriptors[ctrlID].minimum,
                          win.descriptors[ctrlID].maximum} :
              win' = [WinReplaceControlSettingByID(win, ctrlID, FALSE, value)
                         EXCEPT !.tuneLog = <<>>, !.history = <<>>]
    /\ UNCHANGED capVars

(***************************************************************************)
(* The cameras, tuners and targets of the model.                           *)
(***************************************************************************)
Descriptor(name, type, minimum, maximum, default_value) ==
    [name |-> name, type |-> type, minimum |-> minimum, maximum |-> maximum,
     default_value |-> default_value]

Tuner(property, ctrl, rMin, rMax, negativeUse, encourageRange) ==
    [property |-> property, ctrl |-> ctrl, rMin |-> rMin, rMax |-> rMax,
     negativeUse |-> negativeUse, encourageRange |-> encourageRange]

\* a camera with one integer control
SmallCamera == (1 :> Descriptor("Brightness", "integer", 0, 2, 1))

\* the preferred target band of each property
Targets ==
    [property \in SeqRange(tuneProperties) |-> [min |-> 100, max |-> 140]]

\* the CSDevs object once a camera is selected and its tuners are loaded
NewWindow(descriptors, tuners, controls) ==
    [controls |-> controls, tunedControls |-> <<>>,
     tuningControlSettings |-> tuners,
     imageTuningControls |-> PopulateImageTuningControlInfo(tuners),
     loLimit |-> 0, hiLimit |-> 16777214,
     noClamp |-> FALSE, noClampLoLimit |-> 0, noClampHiLimit |-> 0,
     lastFrame |-> [brightness |-> -1, contrast |-> -1, saturation |-> -1],
     lastTOD |-> "Day", targets |-> Targets, descriptors |-> descriptors,
     camAFID |-> 0, camMFID |-> 0, camAF |-> FALSE, camFocus |-> -1,
     capFile |-> TRUE, caption |-> TRUE,
     tuneLog |-> <<>>, history |-> <<>>, settingOps |-> <<>>,
     diverged |-> FALSE]

Init ==
    /\ capThread = FALSE
    /\ th = NewCaptureThread(0)
    /\ tpc = "idle"
    /\ tClosed = FALSE
    /\ tcontrols = <<>>
    /\ capDev = "none"
    /\ lastCapBroke = FALSE
    /\ timerActive = FALSE
    /\ pendingTick = FALSE
    /\ pendingNoSave = FALSE
    /\ frameCaptureAndSave = TRUE
    /\ wastedCapTicks = 0
    /\ devBusy = FALSE
    /\ win = NewWindow(SmallCamera,
                       <<Tuner("Brightness", 1, 0, 2, FALSE, TRUE)>>, <<>>)

Next ==
    \/ TSetupCaptureBuffers
    \/ TMapBuffer
    \/ TStreamOn
    \/ TReachTargetFrame
    \/ TProcessFrame
    \/ TTeardown
    \/ TExcept
    \/ TimerTick
    \/ SingleShotTick
    \/ FrameTickNoSave
    \/ CaptureFinished
    \/ ToggleMonitor
    \/ FrameSizeSelected

Spec == Init /\ [][Next]_vars

(***************************************************************************)
(* Monitoring is on (toggle_monitor has opened the camera and started the  *)
(* capture timer) and the user edits the control shown in the window while *)
(* captures run.                                                           *)
(***************************************************************************)
InitEdit ==
    /\ capThread = FALSE
    /\ th = NewCaptureThread(0)
    /\ tpc = "idle"
    /\ tClosed = FALSE
    /\ tcontrols = <<>>
    /\ capDev = "open"
    /\ lastCapBroke = FALSE
    /\ timerActive = TRUE
    /\ pendingTick = FALSE
    /\ pendingNoSave = FALSE
    /\ frameCaptureAndSave = TRUE
    /\ wastedCapTicks = 0
    /\ devBusy = FALSE
    /\ win = NewWindow(SmallCamera,
                       <<Tuner("Brightness", 1, 0, 2, FALSE, TRUE)>>, <<>>)

NextEdit ==
    \/ TSetupCaptureBuffers
    \/ TMapBuffer
    \/ TStreamOn
    \/ TReachTargetFrame
    \/ TProcessFrame
    \/ TTeardown
    \/ TExcept
    \/ TimerTick
    \/ FrameTickNoSave
    \/ CaptureFinished
    \/ IntControlChanged

SpecEdit == InitEdit /\ [][NextEdit]_vars

(***************************************************************************)
(* Monitoring is on and the user edits the control shown in the window and *)
(* selects a camera in the camera list while captures run.  The cameras    *)
(* are of one kind, with no focus controls and no tuners.                  *)
(***************************************************************************)
\* reset_camera_control_monitoring
ResetCameraControlMonitoring(w) ==
    [w EXCEPT !.controls = <<>>, !.tuneLog = <<>>, !.history = <<>>]

\* use_another_camera for a camera of the list
UseAnotherCamera ==
    /\ \E okOpen \in BOOLEAN :
          capDev' = OpenCamera(CloseCamera(capDev), okOpen)
    /\ tClosed' = ThreadHandleClosed(capDev, tpc, tClosed)
    /\ devBusy' = FALSE
    /\ win' = IF capDev' # "none" THEN ResetCameraControlMonitoring(win)
              ELSE win
    /\ UNCHANGED <<capThread, th, tpc, tcontrols, lastCapBroke, timerActive,
                   pendingTick, pendingNoSave, frameCaptureAndSave,
                   wastedCapTicks>>

InitSwitch ==
    /\ capThread = FALSE
    /\ th = NewCaptureThread(0)
    /\ tpc = "idle"
    /\ tClosed = FALSE
    /\ tcontrols = <<>>
    /\ capDev = "open"
    /\ lastCapBroke = FALSE
    /\ timerActive = TRUE
    /\ pendingTick = FALSE
    /\ pendingNoSave = FALSE
    /\ frameCaptureAndSave = TRUE
    /\ wastedCapTicks = 0
    /\ devBusy = FALSE
    /\ win = [NewWindow(SmallCamera, <<>>, <<>>)
                 EXCEPT !.camAFID = -1, !.camMFID = -1]

NextSwitch ==
    \/ TSetupCaptureBuffers
    \/ TMapBuffer
    \/ TStreamOn
    \/ TReachTargetFrame
    \/ TProcessFrame
    \/ TTeardown
    \/ TExcept
    \/ TimerTick
    \/ FrameTickNoSave
    \/ CaptureFinished
    \/ IntControlChanged
    \/ UseAnotherCamera

SpecSwitch == InitSwitch /\ [][NextSwitch]_vars

(***************************************************************************)
(* The exposure tuning on its own: the cameras and tuners a user can       *)
(* configure, the settings the user edits and the statistics of the        *)
(* frames that arrive.                                                     *)
(***************************************************************************)
\* the number of camera and tuner configurations
TuneConfigs == 1..4

TuneCamera(cfg) ==
    CASE cfg = 1 -> (1 :> Descriptor("Brightness", "integer", 0, 8, 4))
      [] cfg = 2 -> (1 :> Descriptor("Brightness", "integer", 0, 4, 2))
                    @@ (2 :> Descriptor("Gain", "integer", 0, 4, 4))
      [] cfg = 3 -> (1 :> Descriptor("Brightness", "integer", 0, 4, 2))
                    @@ (4 :> Descriptor("Exposure, Auto", "menu", 0, 3, 3))
      [] cfg = 4 -> (3 :> Descriptor("Contrast", "integer", 0, 16, 8))

TuneTuners(cfg) ==
    CASE cfg = 1 -> << Tuner("Brightness", 1, 2, 5, FALSE, TRUE),
                       Tuner("Contrast", 1, 0, 8, FALSE, FALSE) >>
      [] cfg = 2 -> << Tuner("Brightness", 2, 0, 4, FALSE, TRUE),
                       Tuner("Brightness", 1, 0, 4, FALSE, TRUE),
                       Tuner("Contrast", 1, 1, 3, FALSE, FALSE) >>
      [] cfg = 3 -> << Tuner("Brightness", 4, 0, 3, FALSE, TRUE),
                       Tuner("Brightness", 1, 0, 4, FALSE, FALSE),
                       Tuner("Contrast", 1, 0, 1, FALSE, TRUE) >>
      [] cfg = 4 -> << Tuner("Contrast", 3, 4, 8, FALSE, FALSE),
                       Tuner("Saturation", 3, 0, 16, TRUE, TRUE) >>

\* the statistics of the frames the tuning is given
TuneStatistics ==
    { [brightness |-> 60,  contrast |-> 60,  saturation |-> 60],
      [brightness |-> 200, contrast |-> 40,  saturation |-> 128],
      [brightness |-> 120, contrast |-> 200, saturation |-> 60],
      [brightness |-> 3,   contrast |-> 120, saturation |-> 200] }

InitTune ==
    /\ capThread = FALSE
    /\ th = NewCaptureThread(0)
    /\ tpc = "idle"
    /\ tClosed = FALSE
    /\ tcontrols = <<>>
    /\ capDev = "open"
    /\ lastCapBroke = FALSE
    /\ timerActive = FALSE
    /\ pendingTick = FALSE
    /\ pendingNoSave = FALSE
    /\ frameCaptureAndSave = TRUE
    /\ wastedCapTicks = 0
    /\ devBusy = FALSE
    /\ \E cfg \in TuneConfigs :
          win = NewWindow(TuneCamera(cfg), TuneTuners(cfg), <<>>)

\* capture_finished for a capture that was not broken: the statistics of
\* the frame are stored and __tune_exposure runs
TuneStep ==
    /\ \E stats \in TuneStatistics,
          draws \in [1..Len(win.tuningControlSettings) -> DrawSet] :
          win' = TuneExposure([win EXCEPT !.lastFrame = stats], draws)
    /\ UNCHANGED capVars

NextTune ==
    \/ TuneStep
    \/ IntControlChanged
    \/ MenuControlChanged

SpecTune == InitTune /\ [][NextTune]_vars

(***************************************************************************)
(* The rotation among the controls of one property over consecutive calls  *)
(* of __tune_exposure: a camera with three integer controls, each with a   *)
(* tuner for Brightness.  win.history records, for the last MaxHistory     *)
(* calls, the statistics given, the pending settings before the call and   *)
(* the control a value was committed for (0 when none was); a user edit    *)
(* between two calls empties it.                                           *)
(***************************************************************************)
\* the calls of __tune_exposure that are remembered
MaxHistory == 3

RotateCamera ==
    (1 :> Descriptor("Brightness", "integer", 0, 4, 2))
    @@ (2 :> Descriptor("Gain", "integer", 0, 4, 2))
    @@ (3 :> Descriptor("Gamma", "integer", 0, 4, 2))

RotateTuners ==
    << Tuner("Brightness", 1, 0, 4, FALSE, TRUE),
       Tuner("Brightness", 2, 0, 4, FALSE, TRUE),
       Tuner("Brightness", 3, 0, 4, FALSE, TRUE) >>

\* the statistics of the frames the rotation is given: too bright, too dark
RotateStatistics ==
    { [brightness |-> 200, contrast |-> 40,  saturation |-> 128],
      [brightness |-> 3,   contrast |-> 120, saturation |-> 200] }

\* the draws of the random generator for a control range of 15 or less,
\* where the step limit is 1 whatever is drawn
RotateDraws == {1}

InitRotate ==
    /\ capThread = FALSE
    /\ th = NewCaptureThread(0)
    /\ tpc = "idle"
    /\ tClosed = FALSE
    /\ tcontrols = <<>>
    /\ capDev = "open"
    /\ lastCapBroke = FALSE
    /\ timerActive = FALSE
    /\ pendingTick = FALSE
    /\ pendingNoSave = FALSE
    /\ frameCaptureAndSave = TRUE
    /\ wastedCapTicks = 0
    /\ devBusy = FALSE
    /\ win = NewWindow(RotateCamera, RotateTuners, <<>>)

\* the control the record of a call shows a value committed for
CommittedFor(w, property) ==
    LET S == {i \in 1..Len(w.tuneLog) :
                 /\ w.tuneLog[i].property = property
                 /\ w.tuneLog[i].kind \in {"tune", "drop"}}
    IN  IF S = {} THEN 0 ELSE w.tuneLog[CHOOSE i \in S : TRUE].ctrl

\* the last MaxHistory entries of h followed by rec
Remember(h, rec) ==
    LET a == Append(h, rec)
    IN  IF Len(a) > MaxHistory THEN Tail(a) ELSE a

\* capture_finished for a capture that was not broken, remembered
RotateStep ==
    /\ \E stats \in RotateStatistics,
          draws \in [1..Len(win.tuningControlSettings) -> RotateDraws] :
          LET w1 == TuneExposure([win EXCEPT !.lastFrame = stats], draws)
          IN  win' = [w1 EXCEPT !.history =
                         Remember(@, [stats |-> stats,
                                      controls |-> win.controls,
                                      selected |-> CommittedFor(w1, "Brightness")])]
    /\ UNCHANGED capVars

NextRotate ==
    \/ RotateStep
    \/ IntControlChanged

SpecRotate == InitRotate /\ [][NextRotate]_vars

\* the searches of the tuning end within the passes that are followed
SearchEnds == ~win.diverged

(***************************************************************************)
(* The candidate rotation on its own, over tuner lists with tuners of one  *)
(* control for two properties, a tuner with a range of width 1, a tuner    *)
(* for a control the camera lacks and no tuners at all, each with the      *)
(* rotation cursors (imageTuningControls) populated from any of the lists: *)
(* from its own, as __populate_image_tuning_control_info leaves them, or   *)
(* from another, so that the candidate counts do not match the list.       *)
(***************************************************************************)
\* the number of tuner lists
SearchConfigs == 1..6

SearchCamera ==
    (1 :> Descriptor("Brightness", "integer", 0, 4, 2))
    @@ (2 :> Descriptor("Gain", "integer", 0, 4, 2))

SearchTuners(cfg) ==
    CASE cfg = 1 -> << Tuner("Brightness", 1, 0, 4, FALSE, TRUE),
                       Tuner("Contrast", 1, 0, 4, FALSE, TRUE) >>
      [] cfg = 2 -> << Tuner("Brightness", 1, 2, 3, FALSE, TRUE),
                       Tuner("Brightness", 9, 0, 4, FALSE, TRUE),
                       Tuner("Contrast", 2, 0, 4, FALSE, FALSE) >>
      [] cfg = 3 -> << Tuner("Brightness", 2, 0, 4, FALSE, TRUE),
                       Tuner("Brightness", 1, 0, 4, FALSE, TRUE),
                       Tuner("Saturation", 1, 1, 3, TRUE, FALSE) >>
      [] cfg = 4 -> << >>
      [] cfg = 5 -> << Tuner("Contrast", 1, 0, 4, FALSE, TRUE),
                       Tuner("Brightness", 1, 0, 4, FALSE, TRUE) >>
      [] cfg = 6 -> << Tuner("Contrast", 1, 0, 4, FALSE, TRUE),
                       Tuner("Contrast", 2, 0, 4, FALSE, TRUE),
                       Tuner("Brightness", 1, 0, 4, FALSE, TRUE) >>

InitSearch ==
    /\ capThread = FALSE
    /\ th = NewCaptureThread(0)
    /\ tpc = "idle"
    /\ tClosed = FALSE
    /\ tcontrols = <<>>
    /\ capDev = "open"
    /\ lastCapBroke = FALSE
    /\ timerActive = FALSE
    /\ pendingTick = FALSE
    /\ pendingNoSave = FALSE
    /\ frameCaptureAndSave = TRUE
    /\ wastedCapTicks = 0
    /\ devBusy = FALSE
    /\ \E cfg \in SearchConfigs, from \in SearchConfigs :
          win = [NewWindow(SearchCamera, SearchTuners(cfg), <<>>)
                    EXCEPT !.imageTuningControls =
                               PopulateImageTuningControlInfo(SearchTuners(from))]

NextSearch ==
    \/ TuneStep
    \/ IntControlChanged

SpecSearch == InitSearch /\ [][NextSearch]_vars

(***************************************************************************)
(* The pending control settings on their own: the operations of the two    *)
(* lists (CSDevs.controls and captureThread.controls) applied in any       *)
(* order to any control.  win.settingOps records the kind of each          *)
(* operation applied; an add for a control that already has an entry is    *)
(* recorded as "add-listed".                                               *)
(***************************************************************************)
\* the most operations applied to the lists
MaxOps == 4

\* the control ids and values the operations are given
SettingIDs == {1, 2}
SettingValues == {0, 1}

InitSettings ==
    /\ capThread = FALSE
    /\ th = NewCaptureThread(0)
    /\ tpc = "idle"
    /\ tClosed = FALSE
    /\ tcontrols = <<>>
    /\ capDev = "open"
    /\ lastCapBroke = FALSE
    /\ timerActive = FALSE
    /\ pendingTick = FALSE
    /\ pendingNoSave = FALSE
    /\ frameCaptureAndSave = TRUE
    /\ wastedCapTicks = 0
    /\ devBusy = FALSE
    /\ win = NewWindow(SmallCamera, <<>>, <<>>)

\* the kind an add for ctrlID is recorded as
AddKind(ctl, ctrlID) ==
    IF IndexOfId(ctl, ctrlID, 1) # 0 THEN "add-listed" ELSE "add"

\* CSDevs.add_control_setting_by_ID
WinAdd ==
    /\ Len(win.settingOps) < MaxOps
    /\ \E ctrlID \in SettingIDs, value \in SettingValues :
          win' = [WinAddControlSettingByID(win, ctrlID, FALSE, value)
                     EXCEPT !.settingOps = Append(@, AddKind(win.controls, ctrlID))]
    /\ UNCHANGED capVars

\* CSDevs.remove_control_setting_by_ID
WinRemove ==
    /\ Len(win.settingOps) < MaxOps
    /\ \E ctrlID \in SettingIDs :
          win' = [WinRemoveControlSettingByID(win, ctrlID)
                     EXCEPT !.settingOps = Append(@, "remove")]
    /\ UNCHANGED capVars

\* CSDevs.replace_control_setting_by_ID
WinReplace ==
    /\ Len(win.settingOps) < MaxOps
    /\ \E ctrlID \in SettingIDs, value \in SettingValues :
          win' = [WinReplaceControlSettingByID(win, ctrlID, FALSE, value)
                     EXCEPT !.settingOps = Append(@, "replace")]
    /\ UNCHANGED capVars

\* captureThread.add_control_setting_by_ID
ThreadAdd ==
    /\ Len(win.settingOps) < MaxOps
    /\ \E ctrlID \in SettingIDs, value \in SettingValues :
          /\ tcontrols' = ThreadAddControlSettingByID(tcontrols, ctrlID, value)
          /\ win' = [win EXCEPT !.settingOps =
                                   Append(@, AddKind(tcontrols, ctrlID))]
    /\ UNCHANGED <<capThread, th, tpc, tClosed, capDev, lastCapBroke,
                   timerActive, pendingTick, pendingNoSave,
                   frameCaptureAndSave, wastedCapTicks, devBusy>>

\* captureThread.remove_control_setting_by_ID
ThreadRemove ==
    /\ Len(win.settingOps) < MaxOps
    /\ \E ctrlID \in SettingIDs :
          tcontrols' = ThreadRemoveControlSettingByID(tcontrols, ctrlID)
    /\ win' = [win EXCEPT !.settingOps = Append(@, "remove")]
    /\ UNCHANGED <<capThread, th, tpc, tClosed, capDev, lastCapBroke,
                   timerActive, pendingTick, pendingNoSave,
                   frameCaptureAndSave, wastedCapTicks, devBusy>>

\* captureThread.replace_control_setting_by_ID
ThreadReplace ==
    /\ Len(win.settingOps) < MaxOps
    /\ \E ctrlID \in SettingIDs, value \in SettingValues :
          tcontrols' = ThreadReplaceControlSettingByID(tcontrols, ctrlID, value)
    /\ win' = [win EXCEPT !.settingOps = Append(@, "replace")]
    /\ UNCHANGED <<capThread, th, tpc, tClosed, capDev, lastCapBroke,
                   timerActive, pendingTick, pendingNoSave,
                   frameCaptureAndSave, wastedCapTicks, devBusy>>

NextSettings ==
    \/ WinAdd
    \/ WinRemove
    \/ WinReplace
    \/ ThreadAdd
    \/ ThreadRemove
    \/ ThreadReplace

SpecSettings == InitSettings /\ [][NextSettings]_vars

(***************************************************************************)
(* One capture cycle on its own: frame_tick has configured and started a   *)
(* capture thread for a camera with a manual-focus and possibly an         *)
(* auto-focus control, and run() executes.  The target frame goes up to    *)
(* MaxTarget.                                                              *)
(***************************************************************************)
\* the largest frame number chosen in the UI (sbNthFrame) for the cycle
MaxTarget == 6

\* a camera with an integer control, auto-focus and manual focus
FocusCamera ==
    (1 :> Descriptor("Brightness", "integer", 0, 2, 1))
    @@ (5 :> Descriptor("Focus, Auto", "boolean", 0, 1, 1))
    @@ (6 :> Descriptor("Focus (absolute)", "integer", 0, 2, 1))

\* the ids frame_tick finds for auto-focus and manual focus (aCam[5],
\* aCam[4]; -1 is None)
FocusIDs == {<<5, 6>>, <<-1, 6>>}

\* the pending settings of the window when the cycle starts
CycleSettings ==
    { <<[id |-> 1, value |-> 1]>>,
      <<[id |-> 6, value |-> 2], [id |-> 1, value |-> 1]>> }

\* captureThread.controls as earlier cycles left it
CycleLeftovers == { <<>>, <<[id |-> 6, value |-> 0]>> }

InitCycle ==
    /\ capThread = TRUE
    /\ tpc = "run"
    /\ tClosed = FALSE
    /\ capDev = "open"
    /\ lastCapBroke = FALSE
    /\ timerActive = TRUE
    /\ pendingTick = FALSE
    /\ pendingNoSave = FALSE
    /\ frameCaptureAndSave = TRUE
    /\ wastedCapTicks = 0
    /\ devBusy = FALSE
    /\ \E ids \in FocusIDs, controls \in CycleSettings, camAF \in BOOLEAN,
          camFocus \in {-1, 1}, left \in CycleLeftovers,
          nthFrame \in 1..MaxTarget :
          /\ win = [NewWindow(FocusCamera, <<>>, controls)
                       EXCEPT !.camAFID = ids[1], !.camMFID = ids[2],
                              !.camAF = camAF, !.camFocus = camFocus]
          /\ th = [ConfigureCaptureThread(0, win, nthFrame, TRUE)
                      EXCEPT !.handle = "reused"]
          /\ tcontrols = HandOverControls(left, win)

NextCycle ==
    \/ TSetupCaptureBuffers
    \/ TMapBuffer
    \/ TStreamOn
    \/ TReachTargetFrame
    \/ TProcessFrame
    \/ TTeardown
    \/ TExcept

SpecCycle == InitCycle /\ [][NextCycle]_vars

(***************************************************************************)
(* The delta computation on its own: __tune_control_value_by_ID called     *)
(* again and again for one control whose pending setting stays as it is,   *)
(* with the frame values, polarities and random draws of DeltaFrames,      *)
(* BOOLEAN and DeltaDraws.  win.history records the last MaxCompared       *)
(* calls: what was given, the control fraction after the delta and the     *)
(* value returned.                                                         *)
(***************************************************************************)
\* the calls of __tune_control_value_by_ID that are remembered
MaxCompared == 2

\* a camera whose control has a range above 15
DeltaCamera == (3 :> Descriptor("Contrast", "integer", 0, 16, 8))

\* the pending settings of the control the calls are made for
DeltaValues == {0, 1, 3, 8, 13, 15, 16}

\* the contrast of the last frame
DeltaFrames == {0, 60, 80, 119, 120, 125, 180, 255}

\* the hundredths drawn by random.uniform(0.01, 0.15)
DeltaDraws == {1, 15}

InitDelta ==
    /\ capThread = FALSE
    /\ th = NewCaptureThread(0)
    /\ tpc = "idle"
    /\ tClosed = FALSE
    /\ tcontrols = <<>>
    /\ capDev = "open"
    /\ lastCapBroke = FALSE
    /\ timerActive = FALSE
    /\ pendingTick = FALSE
    /\ pendingNoSave = FALSE
    /\ frameCaptureAndSave = TRUE
    /\ wastedCapTicks = 0
    /\ devBusy = FALSE
    /\ \E value \in DeltaValues :
          win = NewWindow(DeltaCamera, <<>>, <<[id |-> 3, value |-> value]>>)

\* the last MaxCompared - 1 entries of h followed by rec
Compared(h, rec) ==
    LET a == Append(h, rec)
    IN  IF Len(a) > MaxCompared THEN Tail(a) ELSE a

\* the call __tune_control_value_by_ID(aCtrl.id, lastValue, tgtVal, 256.0,
\* rForce, dNeg, imgProp="Contrast") of __tune_property_by_nameA
DeltaStep ==
    /\ \E frame \in DeltaFrames, dNeg \in BOOLEAN, draw \in DeltaDraws :
          LET w  == [win EXCEPT !.lastFrame.contrast = frame]
              q  == w.descriptors[3]
              preferredPower ==
                  frame < PreferredTargetByProperty(w, "Contrast", FALSE)
                  \/ frame > PreferredTargetByProperty(w, "Contrast", TRUE)
              rec == [frame |-> frame, dNeg |-> dNeg, draw |-> draw,
                      value |-> w.controls[1].value,
                      frac  |-> TunedControlFraction(
                                    w.controls[1].value, q.minimum, q.maximum,
                                    2 * frame, Target2(w, "Contrast"), dNeg,
                                    GetControlTunePower(w.lastTOD, "Contrast",
                                                        q.name, preferredPower)),
                      new   |-> TuneControlValueByID(w, 3, "Contrast", dNeg,
                                                     draw).v]
          IN  win' = [w EXCEPT !.history = Compared(@, rec)]
    /\ UNCHANGED capVars

NextDelta == DeltaStep

SpecDelta == InitDelta /\ [][NextDelta]_vars

(***************************************************************************)
(* Properties of the capture cycle.                                        *)
(***************************************************************************)
\* C1: when run() has returned, on every exit path, every buffer that was
\* mapped and appended to the buffer set during the cycle has been closed
\* and the buffer set is empty.
NoBufferLeak ==
    tpc = "done" => th.buffers = 0 /\ th.nClosed = th.nMapped

\* run() has returned through its exception handler after buffers were mapped
NoBufferLeakWitness ==
    tpc = "done" /\ th.raised /\ th.nMapped > 0 /\ th.nClosed = th.nMapped

\* C2: when run() has returned from a cycle in which the device granted a
\* buffer request with a count above zero, a release request was issued
\* after the grant.
ReleaseFollowsGrant ==
    tpc = "done" /\ th.granted => th.relAfterGrant


\* C3: two capture cycles are never in progress on one device handle.  A
\* thread inside run() is always the one capThread names; a cycle starts
\* only when no capture thread exists and the last run() has returned and
\* been consumed; a buffer request is granted only on a handle that has no
\* unfinished cycle (its stream-off, close and release have completed, or
\* the handle is a newly opened one); and a tick that arrives while a
\* capture thread exists only counts itself.
SingleFlight ==
    /\ [](tpc # "idle" => capThread)
    /\ [][ /\ (tpc' = "run" /\ tpc # "run") => (~capThread /\ tpc = "idle")
           /\ (th'.granted /\ ~th.granted) => ~devBusy
           /\ (capThread /\ wastedCapTicks' # wastedCapTicks)
                  => UNCHANGED <<capThread, th, tpc, tClosed, tcontrols,
                                 capDev, lastCapBroke, devBusy, win>>
           /\ (capThread /\ tpc # "done") => th'.capFrame = th.capFrame
         ]_vars

\* a tick was ignored, and a later cycle, started with the settings tuned
\* from an earlier one, holds granted buffers on an open handle
SingleFlightWitness ==
    /\ capThread /\ wastedCapTicks > 0
    /\ tpc = "map" /\ th.granted /\ ~tClosed /\ devBusy
    /\ Len(tcontrols) > 0

Successful ==
    tpc = "done" /\ th.reachResult = 0 /\ ~th.raised /\ ~th.failed

\* n map-and-queue operations
Maps(n) == [i \in 1..n |-> "map"]

\* C5 as stated: in a successful cycle the operations are, in order and
\* each exactly once: buffer request, map-and-queue of every buffer, stream
\* on, selection of the target frame, decode, statistics, caption (if any),
\* save, requeue, stream off, buffer close, buffer release.
OperationsOnceInOrder ==
    Successful =>
        th.oplog = <<"request">> \o Maps(th.nMapped)
                   \o <<"streamon", "retain", "decode", "stats">>
                   \o (IF th.caption THEN <<"caption">> ELSE <<>>)
                   \o <<"save", "requeue", "streamoff", "close", "release">>

\* C5, amended: in a successful cycle the operations are, in order: a
\* release request, the buffer request, map-and-queue of every granted
\* buffer, stream on, selection of the target frame, decode, statistics,
\* then, only when the cycle has a file to save to, caption (if any) and
\* save, then requeue, stream off, buffer close, buffer release.
OperationsInOrder ==
    Successful =>
        /\ th.nMapped >= 1
        /\ th.oplog = <<"release", "request">> \o Maps(th.nMapped)
                      \o <<"streamon", "retain", "decode", "stats">>
                      \o (IF th.saveFile
                          THEN (IF th.caption THEN <<"caption">> ELSE <<>>)
                               \o <<"save">>
                          ELSE <<>>)
                      \o <<"requeue", "streamoff", "close", "release">>

\* a successful cycle that mapped several buffers and saved a captioned frame
OperationsInOrderWitness ==
    Successful /\ th.saveFile /\ th.caption /\ th.nMapped > 1

\* the settings an S_CTRL write of __set_controls can carry: the entries
\* of the thread's list, and auto-focus off
Writable(ctl, afID) ==
    {[id |-> ctl[i].id, value |-> ctl[i].value] : i \in 1..Len(ctl)}
    \cup {[id |-> afID, value |-> 0]}

\* C6: the feedback is one cycle delayed.  The settings of the thread
\* change only when a cycle starts, and then hold every pending setting of
\* the window; everything a cycle writes is one of them; the window's
\* settings change while a thread exists only by a user edit, which leaves
\* the thread and its settings alone, or by capture_finished once run() has
\* returned, so after the statistics of that cycle were computed and after
\* its last write.
OneCycleDelay ==
    /\ [](\A i \in 1..Len(th.written) :
             th.written[i] \in Writable(tcontrols, th.focusAutoID))
    /\ [][ /\ tcontrols' # tcontrols => tpc = "idle" /\ tpc' = "run"
           /\ (tpc = "idle" /\ tpc' = "run") =>
                 \A i \in 1..Len(win.controls) :
                    win.controls[i] \in Writable(tcontrols', -1)
           /\ win' # win =>
                 \/ UNCHANGED <<th, tpc, tcontrols>>
                 \/ /\ tpc = "done" /\ tpc' = "idle"
                    /\ th.nSetControls <= 1
                    /\ UNCHANGED tcontrols
         ]_vars

\* a cycle has written a setting that the tuning made from the statistics
\* of an earlier cycle, and the window's setting has been edited since
OneCycleDelayWitness ==
    /\ tpc = "process" /\ Len(win.tunedControls) > 0
    /\ \E j \in 1..Len(th.written) : th.written[j].id = win.tunedControls[1]
    /\ \E i \in 1..Len(win.controls) :
          win.controls[i] \notin Writable(tcontrols, -1)

(***************************************************************************)
(* Properties of the exposure tuning, read off the record win.tuneLog of   *)
(* the last call of __tune_exposure and the pending settings it left.      *)
(***************************************************************************)
\* the entries of the record that commit a tuned value for a control
Commits == {i \in 1..Len(win.tuneLog) : win.tuneLog[i].kind \in {"tune", "drop"}}

\* the entries of the record that change a pending setting
Changes ==
    {i \in 1..Len(win.tuneLog) :
        \/ win.tuneLog[i].kind \in {"create", "drop"}
        \/ win.tuneLog[i].kind = "tune" /\ win.tuneLog[i].new # win.tuneLog[i].old}

\* the controls whose pending setting an entry among S changed for property
ControlsOf(S, property) ==
    {win.tuneLog[i].ctrl : i \in {j \in S : win.tuneLog[j].property = property}}

\* C7: in one call of __tune_exposure at most one control has its
\* pending setting changed on behalf of each property, so at most three
\* settings change.
OneSettingChangedPerProperty ==
    /\ \A property \in SeqRange(tuneProperties) :
          Cardinality(ControlsOf(Changes, property)) <= 1
    /\ Cardinality(Changes) <= Len(tuneProperties)

\* What the tuning keeps instead: in one call of __tune_exposure at most
\* one control has a tuned value committed on behalf of each property; any
\* other control whose pending setting changes for the property is a
\* candidate of the rotation that had no setting, and it is given one at
\* its descriptor's default value.
OneCommitPerProperty ==
    /\ \A property \in SeqRange(tuneProperties) :
          Cardinality({i \in Commits : win.tuneLog[i].property = property}) <= 1
    /\ Cardinality(Commits) <= Len(tuneProperties)
    /\ \A i \in Changes \ Commits :
          LET ctrl == win.tuneLog[i].ctrl
          IN  /\ win.tuneLog[i].kind = "create"
              /\ ctrl \notin {win.tuneLog[j].ctrl : j \in Commits} =>
                    /\ IndexOfId(win.controls, ctrl, 1) # 0
                    /\ win.controls[IndexOfId(win.controls, ctrl, 1)].value
                          = win.descriptors[ctrl].default_value

\* C8: within one call of __tune_exposure no control has a value committed
\* on behalf of two different properties, and no control is recorded as
\* tuned twice.
NoControlTunedForTwoProperties ==
    /\ \A i \in Commits, j \in Commits :
          win.tuneLog[i].ctrl = win.tuneLog[j].ctrl => i = j
    /\ \A i \in 1..Len(win.tunedControls), j \in 1..Len(win.tunedControls) :
          win.tunedControls[i] = win.tunedControls[j] => i = j

\* a control was given a setting during the rotation for Brightness and
\* tuned for it, and Contrast, which is off target, not masked and has a
\* tuner for the same control, was left without a commit
NoControlTunedForTwoPropertiesWitness ==
    \E i \in Commits, k \in 1..Len(win.tuningControlSettings) :
        /\ win.tuneLog[i].property = "Brightness"
        /\ \E j \in 1..Len(win.tuneLog) :
              /\ win.tuneLog[j].kind = "create"
              /\ win.tuneLog[j].ctrl = win.tuneLog[i].ctrl
        /\ win.tuningControlSettings[k].property = "Contrast"
        /\ win.tuningControlSettings[k].ctrl = win.tuneLog[i].ctrl
        /\ win.lastFrame.contrast >= 0
        /\ win.lastFrame.contrast < win.targets["Contrast"].min
        /\ ~PropertyMasked(win, "Contrast")
        /\ ControlsOf(Commits, "Contrast") = {}

\* C9: the value committed for a control through a tuner that encourages
\* its limits lies within that tuner's own range.
EncouragedRangeKept ==
    \A i \in Commits :
        win.tuneLog[i].kind = "tune" /\ win.tuneLog[i].encourageRange =>
            /\ win.tuneLog[i].rMin <= win.tuneLog[i].new
            /\ win.tuneLog[i].new <= win.tuneLog[i].rMax

\* C10: every value the tuning puts into the pending settings, committed
\* or given on creation, lies within the descriptor's minimum and maximum
\* of its control, and so does every pending setting.
CommittedWithinDescriptor ==
    /\ \A i \in 1..Len(win.tuneLog) :
          win.tuneLog[i].kind \in {"tune", "create"} =>
            /\ win.descriptors[win.tuneLog[i].ctrl].minimum <= win.tuneLog[i].new
            /\ win.tuneLog[i].new <= win.descriptors[win.tuneLog[i].ctrl].maximum
    /\ \A i \in 1..Len(win.controls) :
          /\ win.descriptors[win.controls[i].id].minimum <= win.controls[i].value
          /\ win.controls[i].value <= win.descriptors[win.controls[i].id].maximum

\* a setting at the descriptor's maximum, above the range of a tuner that
\* does not encourage its limits, was tuned through that tuner and the
\* value committed is still above the tuner's range
CommittedWithinDescriptorWitness ==
    \E i \in Commits :
        /\ win.tuneLog[i].kind = "tune"
        /\ ~win.tuneLog[i].encourageRange
        /\ win.tuneLog[i].old = win.descriptors[win.tuneLog[i].ctrl].maximum
        /\ win.tuneLog[i].rMax < win.tuneLog[i].new
        /\ win.tuneLog[i].new < win.tuneLog[i].old

\* the entries of the record made on behalf of property
EntriesOf(property) ==
    {i \in 1..Len(win.tuneLog) : win.tuneLog[i].property = property}

\* C11: when the last frame value of a property equals the midpoint of its
\* target band exactly, the call of __tune_exposure emits no setting for
\* that property: it neither commits a value nor adds a pending setting on
\* its behalf.
MidpointEmitsNothing ==
    \A property \in SeqRange(tuneProperties) :
        2 * FrameLastValueByProperty(win, property) = Target2(win, property)
            => EntriesOf(property) = {}

\* What the tuning keeps at the midpoint: no tuned value is committed for
\* the property (the rotation may still have given a candidate control
\* that had no setting one at its descriptor's default value).
MidpointCommitsNothing ==
    \A property \in SeqRange(tuneProperties) :
        2 * FrameLastValueByProperty(win, property) = Target2(win, property)
            => EntriesOf(property) \cap Commits = {}

\* how far the last frame value of property lies outside its target band
OutsideBand(property) ==
    LET l == FrameLastValueByProperty(win, property)
    IN  IF l < win.targets[property].min THEN win.targets[property].min - l
        ELSE IF l > win.targets[property].max THEN l - win.targets[property].max
        ELSE 0

\* C12 as stated: when Brightness's last value lies outside its target band
\* by more than half the band's half-width, nothing is emitted for Contrast
\* or for Saturation.
MaskedBeyondHalfOfHalfWidth ==
    (/\ win.lastFrame.brightness >= 0
     /\ 4 * OutsideBand("Brightness")
           > win.targets["Brightness"].max - win.targets["Brightness"].min)
        => EntriesOf("Contrast") \cup EntriesOf("Saturation") = {}

\* C12, amended: when Brightness's last value lies outside its target band
\* and further from the band's midpoint than half the midpoint, nothing is
\* emitted for Contrast or for Saturation (brightness 10 with band
\* [100,140] is 110 from the midpoint 120, more than 60).
MaskedBeyondHalfOfMidpoint ==
    (/\ win.lastFrame.brightness >= 0
     /\ OutsideBand("Brightness") > 0
     /\ 4 * Abs(2 * win.lastFrame.brightness - Target2(win, "Brightness"))
           > 2 * Target2(win, "Brightness"))
        => EntriesOf("Contrast") \cup EntriesOf("Saturation") = {}

\* Brightness is far above its band and was tuned, while Contrast, which is
\* below its own band and has a tuner, was left alone
MaskedBeyondHalfOfMidpointWitness ==
    /\ win.lastFrame.brightness > 180
    /\ EntriesOf("Brightness") \cap Commits # {}
    /\ win.lastFrame.contrast >= 0
    /\ win.lastFrame.contrast < win.targets["Contrast"].min
    /\ \E k \in 1..Len(win.tuningControlSettings) :
          win.tuningControlSettings[k].property = "Contrast"
    /\ EntriesOf("Contrast") = {}

\* the tuners of property
TunersOf(property) ==
    {k \in 1..Len(win.tuningControlSettings) :
        win.tuningControlSettings[k].property = property}

\* before the remembered call rec, tuner k had a pending setting, a usable
\* range, and room to move in the direction the statistics required
Eligible(rec, k, property) ==
    LET t    == win.tuningControlSettings[k]
        i    == IndexOfId(rec.controls, t.ctrl, 1)
        last == IF property = "Brightness" THEN rec.stats.brightness
                ELSE IF property = "Contrast" THEN rec.stats.contrast
                ELSE rec.stats.saturation
        up   == 2 * last < Target2(win, property)
        down == 2 * last > Target2(win, property)
    IN  /\ i # 0
        /\ t.rMax - t.rMin > 1
        /\ up \/ down
        /\ (up = ~t.negativeUse) => rec.controls[i].value < t.rMax
        /\ (down = ~t.negativeUse) => rec.controls[i].value > t.rMin

\* three consecutive calls were given the same statistics, and before each
\* of them all three tuners of Brightness were equally eligible
ThreeEligibleCalls ==
    /\ Len(win.history) = 3
    /\ Cardinality(TunersOf("Brightness")) = 3
    /\ \A j \in 1..3 :
          /\ win.history[j].stats = win.history[1].stats
          /\ \A k \in TunersOf("Brightness") :
                Eligible(win.history[j], k, "Brightness")

\* C13: with three tuners configured for Brightness that are all equally
\* eligible, three consecutive tuning cycles reporting the same statistics
\* select three distinct controls before any control is selected a second
\* time.
RoundRobinFair ==
    ThreeEligibleCalls =>
        /\ \A j \in 1..3 : win.history[j].selected # 0
        /\ Cardinality({win.history[j].selected : j \in 1..3}) = 3

\* What the rotation keeps instead: the same, when the frame value is not
\* a value the controls can take (a candidate whose tuned control value
\* equals the frame value is passed over).
RoundRobinFairOffValue ==
    (/\ ThreeEligibleCalls
     /\ \A k \in TunersOf("Brightness") :
           win.history[1].stats.brightness
               > win.descriptors[win.tuningControlSettings[k].ctrl].maximum)
        => /\ \A j \in 1..3 : win.history[j].selected # 0
           /\ Cardinality({win.history[j].selected : j \in 1..3}) = 3

(***************************************************************************)
(* Properties of the capture cycle's error handling.                       *)
(***************************************************************************)
\* the operations of kind op the cycle has issued
Issued(op) == {i \in 1..Len(th.oplog) : th.oplog[i] = op}

\* the start-streaming command of this cycle was issued and failed
StreamOnFailed == Issued("streamon") # {} /\ ~th.streamOnIssued

\* C14: if the start-streaming command fails in a cycle, the device is
\* marked broken and no readiness wait or dequeue is attempted in that
\* cycle.
StreamOnFailureEndsCycle ==
    StreamOnFailed => th.brokenRx /\ th.nWaits = 0 /\ th.nDequeued = 0

\* C15: if requeueing a buffer fails at any point in a capture cycle, the
\* outcome run() leaves for the caller (receive_broken) reports broken.
RequeueFailureReported ==
    tpc = "done" /\ th.requeueFailed => th.brokenRx

\* run() has returned from a cycle whose readiness wait expired, in which
\* no device operation failed and nothing was raised
TimedOutCleanly ==
    tpc = "done" /\ th.reachResult = -2 /\ ~th.failed /\ ~th.raised

\* C16: when the bounded readiness wait expires with no buffer ready, the
\* cycle is aborted (nothing is decoded or saved and teardown is performed)
\* and, no device operation having failed, the outcome does not report
\* broken.
TimeoutAbortsNotBroken ==
    TimedOutCleanly =>
        /\ Issued("decode") \cup Issued("stats") \cup Issued("save") = {}
        /\ Issued("streamoff") # {} /\ Issued("close") # {}
        /\ th.relAfterGrant /\ th.buffers = 0
        /\ ~th.brokenRx

\* What the cycle keeps on a timeout: it is aborted, with nothing decoded
\* or saved and the teardown performed.
TimeoutAborts ==
    TimedOutCleanly =>
        /\ Issued("decode") \cup Issued("stats") \cup Issued("save") = {}
        /\ Issued("streamoff") # {} /\ Issued("close") # {}
        /\ th.relAfterGrant /\ th.buffers = 0

\* the retained buffer of this cycle could not be decoded: it was requeued
\* without a decoded image
DecodeFailed ==
    tpc = "done" /\ th.reachResult = 0 /\ ~th.raised
    /\ Issued("requeue") # {} /\ Issued("decode") = {}

\* the statistics CSDevs holds when none are available
Unavailable == [brightness |-> -1, contrast |-> -1, saturation |-> -1]

\* C17: when the retained buffer cannot be decoded into an image, the
\* statistics capture_finished stores for the tuning are the unavailable
\* sentinel (-1) for all three properties, the tuning emits no setting from
\* them, and the device is not marked broken.
DecodeFailureGivesNoStatistics ==
    [][ (DecodeFailed /\ capThread /\ ~capThread') =>
            /\ win'.lastFrame = Unavailable
            /\ win'.controls = win.controls
            /\ ~lastCapBroke'
      ]_vars

\* What the cycle keeps when the decode fails: the device is not marked
\* broken.
DecodeFailureNotBroken ==
    [][ (DecodeFailed /\ capThread /\ ~capThread') => ~lastCapBroke' ]_vars

\* C18: the outcome capture_finished records is the cycle's broken flag;
\* after a cycle whose outcome is broken the next cycle is started on a
\* handle that frame_tick closed and opened again, before run() issues its
\* first device operation; after a cycle that was not broken the open
\* handle is kept and reused.
HandleRenewedAfterBroken ==
    /\ [](tpc \notin {"idle", "run"} => th.handle = "used" \/ th.capFrame <= 0)
    /\ [][ /\ (capThread /\ ~capThread') => lastCapBroke' = th.brokenRx
           /\ (lastCapBroke /\ ~capThread /\ lastCapBroke') => ~capThread'
           /\ (tpc = "idle" /\ tpc' = "run") =>
                 /\ ~lastCapBroke' /\ capDev' = "open" /\ ~tClosed'
                 /\ (lastCapBroke /\ capDev = "open")
                        => th'.handle = "reopened" /\ ~devBusy'
                 /\ (~lastCapBroke /\ capDev = "open")
                        => th'.handle = "reused" /\ devBusy' = devBusy
                 /\ capDev = "none" => th'.handle = "opened"
         ]_vars

\* after a cycle that handed settings to the thread, a cycle is about to
\* run on a handle that frame_tick closed and opened again
HandleRenewedAfterBrokenWitness ==
    tpc = "run" /\ th.handle = "reopened" /\ Len(tcontrols) > 0 /\ ~devBusy

\* run() has returned from a cycle with a file to save to, in which the
\* device granted the buffers, every readiness wait found a buffer ready,
\* no ioctl failed and the target frame was retained
DeviceSucceeded ==
    /\ tpc = "done" /\ th.saveFile /\ th.granted
    /\ th.reachResult = 0 /\ ~th.raised /\ ~th.ioFailed

OneEntryPerControl(ctl) ==
    \A i \in 1..Len(ctl), j \in 1..Len(ctl) : ctl[i].id = ctl[j].id => i = j

FrameDelta2(rec) == Target2(win, "Contrast") - 2 * rec.frame

\* two remembered calls with frame deltas of the same sign, the second at
\* least as large as the first
LargerDelta(a, b) ==
    /\ a.dNeg = b.dNeg
    /\ \/ 0 < FrameDelta2(a) /\ FrameDelta2(a) <= FrameDelta2(b)
       \/ 0 > FrameDelta2(a) /\ FrameDelta2(a) >= FrameDelta2(b)

\* C21: for a fixed control, a fixed pending value and a fixed sign of the
\* frame delta, a call of __tune_control_value_by_ID with a larger absolute
\* frame delta never returns a smaller absolute change of the control value
\* than a call with a smaller one, whatever the calls draw.
LargerDeltaNeverSmallerChange ==
    \A i \in 1..Len(win.history), j \in 1..Len(win.history) :
        LargerDelta(win.history[i], win.history[j]) =>
            Abs(win.history[i].new - win.history[i].value)
                <= Abs(win.history[j].new - win.history[j].value)

\* The same for two calls that draw the same step limit.
LargerDeltaNeverSmallerChangeSameDraw ==
    \A i \in 1..Len(win.history), j \in 1..Len(win.history) :
        /\ LargerDelta(win.history[i], win.history[j])
        /\ win.history[i].draw = win.history[j].draw
        => Abs(win.history[i].new - win.history[i].value)
               <= Abs(win.history[j].new - win.history[j].value)

(***************************************************************************)
(* Properties of the application of the pending settings in a cycle.       *)
(***************************************************************************)
\* C22: in a capture cycle that reaches the target frame the pending
\* settings are applied exactly once; they are applied in the pass of the
\* frame loop whose counter is capFrame divided by 3, rounded down (0 when
\* capFrame is 2 or less), after stream-on was issued and when the buffers
\* dequeued so far are those of the earlier counters only, so before the
\* buffer of that counter and before the retained frame are dequeued.
ControlsAppliedOnceAtControlFrame ==
    /\ [](th.reachResult = 0 => th.nSetControls = 1)
    /\ [][th'.nSetControls > th.nSetControls =>
            /\ tpc = "reach"
            /\ th.nSetControls = 0 /\ th'.nSetControls = 1
            /\ "streamon" \in {th.oplog[i] : i \in 1..Len(th.oplog)}
            /\ th.curFrame = (IF th.capFrame > 2 THEN th.capFrame \div 3 ELSE 0)
            /\ th.nDequeued = th.curFrame
            /\ ~th.bufToSave
         ]_vars

\* the target frame 6 was retained after the settings were written at
\* counter 2 (two buffers were dequeued before, five when it is retained)
ControlsAppliedOnceAtControlFrameWitness ==
    /\ th.reachResult = 0 /\ th.capFrame = MaxTarget
    /\ th.nSetControls = 1 /\ Len(th.written) > 0
    /\ th.nDequeued = MaxTarget + 1

(***************************************************************************)
(* Properties of the candidate rotation.                                   *)
(***************************************************************************)
\* a rotation cursor counts more candidates for its property than the
\* tuner list holds
CountExceedsTuners ==
    \E i \in 1..Len(win.imageTuningControls) :
        win.imageTuningControls[i].iCount
            > CountTuners(win.tuningControlSettings,
                          win.imageTuningControls[i].property, 1)

RangeOfEntry(i) ==
    Abs(win.descriptors[win.tuneLog[i].ctrl].maximum
        - win.descriptors[win.tuneLog[i].ctrl].minimum)

\* entry i of the record commits a value within the step cap of its
\* control: 1 for a range of 15 or less, else 15 percent of the range
WithinStepCap(i) ==
    LET d == Abs(win.tuneLog[i].new - win.tuneLog[i].old)
    IN  IF RangeOfEntry(i) <= 15 THEN d <= 1
        ELSE 100 * d <= 15 * RangeOfEntry(i)

\* C24: the value a tuning cycle commits for a control differs from the
\* control's value before the cycle by no more than the step cap, also
\* when the result was limited to the tuner's range, with encourageLimits
\* true or false.
CommittedStepWithinCap ==
    \A i \in Commits : win.tuneLog[i].kind = "tune" => WithinStepCap(i)

\* The same for the values committed through tuners whose range the value
\* before the cycle was inside of.
CommittedStepWithinCapInsideRange ==
    \A i \in Commits :
        /\ win.tuneLog[i].kind = "tune"
        /\ win.tuneLog[i].rMin <= win.tuneLog[i].old
        /\ win.tuneLog[i].old <= win.tuneLog[i].rMax
        => WithinStepCap(i)

\* The same for the values committed through tuners that do not encourage
\* their limits.
CommittedStepWithinCapNotEncouraged ==
    \A i \in Commits :
        win.tuneLog[i].kind = "tune" /\ ~win.tuneLog[i].encourageRange
        => WithinStepCap(i)

\* how far value v is outside the range of the tuner of entry i of the record
OutsideBy(i, v) ==
    IF v < win.tuneLog[i].rMin THEN win.tuneLog[i].rMin - v
    ELSE IF v > win.tuneLog[i].rMax THEN v - win.tuneLog[i].rMax
    ELSE 0

\* the commits through a tuner that does not encourage its limits, for a
\* control whose value before the cycle was outside the tuner's range
GuidedCommits ==
    {i \in Commits : /\ win.tuneLog[i].kind = "tune"
                     /\ ~win.tuneLog[i].encourageRange
                     /\ OutsideBy(i, win.tuneLog[i].old) > 0}

WholeRange ==
    (win.descriptors[3].maximum - win.descriptors[3].minimum) * FP

\* C25: for every frame, target and control fraction and both polarities
\* the control fraction after the computed delta is applied lies in [0,1].
NewFractionWithinUnit ==
    \A i \in 1..Len(win.history) :
        0 <= win.history[i].frac /\ win.history[i].frac <= WholeRange

\* The same for the positive polarity and a frame below the target, where
\* the delta is added and can only leave [0,1] at 1.
NewFractionWithinUnitRaising ==
    \A i \in 1..Len(win.history) :
        ~win.history[i].dNeg /\ FrameDelta2(win.history[i]) > 0
        => /\ 0 <= win.history[i].frac
           /\ win.history[i].frac <= WholeRange

(***************************************************************************)
(* Properties of the focus settings in one application of the pending      *)
(* settings.                                                               *)
(***************************************************************************)
\* the writes of a manual-focus value among the settings written
ManualFocusWrites ==
    {i \in 1..Len(th.written) :
        th.focusManualID # -1 /\ th.written[i].id = th.focusManualID}

\* the thread's list holds an auto-focus setting with a value that is on
\* (onOff = TRUE) or off (onOff = FALSE)
PendingAutoFocus(onOff) ==
    /\ th.focusAutoID # -1
    /\ \E i \in 1..Len(tcontrols) :
          /\ tcontrols[i].id = th.focusAutoID
          /\ (tcontrols[i].value # 0) = onOff

\* auto-focus is tracked and wanted off: its pending setting is off, or it
\* has none and a manual-focus setting is pending
AutoFocusWantedOff ==
    /\ th.focusAutoID # -1
    /\ \/ PendingAutoFocus(FALSE)
       \/ /\ ~PendingAutoFocus(TRUE)
          /\ \E i \in 1..Len(tcontrols) : tcontrols[i].id = th.focusManualID

\* C27: in one application of the pending settings a manual-focus value
\* is never written when the pending auto-focus setting is on, and when
\* auto-focus read as on and is wanted off, each write of a manual-focus
\* value comes directly after a successful write of auto-focus off in the
\* same application.
ManualFocusOnlyWithAutoFocusOff ==
    /\ PendingAutoFocus(TRUE) => ManualFocusWrites = {}
    /\ th.afRead = "on" /\ AutoFocusWantedOff =>
          \A i \in ManualFocusWrites :
              /\ i > 1
              /\ th.written[i - 1] = [id |-> th.focusAutoID, value |-> 0]

\* auto-focus read as on with a pending setting of off, and a manual-focus
\* value that is listed before the auto-focus setting was written after
\* auto-focus was switched off
ManualFocusOnlyWithAutoFocusOffWitness ==
    /\ th.afRead = "on" /\ PendingAutoFocus(FALSE)
    /\ tcontrols[1].id = th.focusManualID
    /\ 2 \in ManualFocusWrites
    /\ th.written[1] = [id |-> th.focusAutoID, value |-> 0]

(***************************************************************************)
(* Properties of the end of streaming.                                     *)
(***************************************************************************)
\* stream-off was issued after stream-on and before every close and
\* release of buffers that follows stream-on
StoppedBeforeRelease ==
    \E i \in Issued("streamoff") :
        /\ \A k \in Issued("streamon") : k < i
        /\ \A j \in Issued("close") \cup Issued("release") :
              (\E k \in Issued("streamon") : k < j) => i < j

\* C28: in a capture cycle in which stream-on was issued, stream-off is
\* issued before the buffers are closed and released and before run()
\* returns, on every exit path, an exception raised while waiting for or
\* processing frames included.
StreamStoppedOnEveryExit ==
    tpc = "done" /\ th.streamOnIssued => StoppedBeforeRelease

\* The same for the cycles in which no exception reaches the handler of
\* run().
StreamStoppedUnlessRaised ==
    tpc = "done" /\ th.streamOnIssued /\ ~th.raised => StoppedBeforeRelease

(***************************************************************************)
(* Properties of the settings handed from cycle to cycle.                  *)
(***************************************************************************)
\* C29: the settings a capture cycle writes to the device are the pending
\* settings CSDevs held when the cycle was started, with the focus settings
\* added for the cycle; a setting that was removed, or cleared when the
\* camera was switched, is written by no later cycle.
WritesOnlyPendingSettings ==
    \A i \in 1..Len(th.written) :
        th.written[i] \in Writable(th.pending, th.focusAutoID)

\* The settings a cycle writes are settings CSDevs handed over when this
\* cycle or an earlier one was started: entries of the list the thread
\* objects share.
WritesOnlySharedSettings ==
    \A i \in 1..Len(th.written) :
        th.written[i] \in Writable(tcontrols, th.focusAutoID)

(***************************************************************************)
(* Properties of the device handle shared by CSDevs and the thread.        *)
(***************************************************************************)
\* C30: CSDevs never closes the device handle while a capture cycle is
\* outstanding, whatever the interleaving of the running thread with
\* toggle_monitor, the selection of a camera or frame size and the recycle
\* of a broken device: a cycle inside run() never finds its handle closed.
HandleOpenWhileCycleOutstanding ==
    capThread /\ tpc \notin {"idle", "done"} => ~tClosed

\* The recycle of a broken device in frame_tick closes the handle only
\* when no capture thread exists.
RecycleOnlyWithoutThread ==
    [][lastCapBroke /\ ~lastCapBroke' => ~capThread]_vars
====
